---------------------------- MODULE Spec2Model ----------------------------
(***************************************************************************)
(* A model of the DHT core of webrtc-network-simulator: the k-bucket       *)
(* routing table (kbucket.js), the message cache (cache-strategy.js), the  *)
(* forwarding strategy (forward-strategy.js), the link RPC (webrtc-rpc.js) *)
(* and the DHT node (dht.js, the second, current class of the file).       *)
(*                                                                         *)
(* Node ids are the program's strings of 40 hex digits, here sequences of   *)
(* 40 digits 0..15.  The state names an id by its index i in the model's   *)
(* id universe and Hex(i) is the string; every computation the code makes  *)
(* on ids (hex -> bytes -> xor -> hex, localeCompare on hex strings) is    *)
(* made on the strings.                                                    *)
(***************************************************************************)
EXTENDS Integers, Sequences, FiniteSets, TLC

----------------------------------------------------------------------------
(* Bounds of the model *)

\* number of distinct node ids the routing-table specification draws from
NumIds == 7
\* the node of the routing-table specification has one of the first
\* NumSelf ids of the universe
NumSelf == 2
\* bucket capacity k (opts.k; the program's default is 20)
K == 2
\* message ids are 1..MaxMsgs
MaxMsgs == 3
\* cache capacity (opts.cacheSize; the program's default is 1000)
MaxSize == 2
\* tryToDeliverCachedMessages calls that may be in progress at once
MaxPasses == 1
\* entries of a persisted cache file handed to addCachedMessages
MaxLoad == 2
\* the clock runs from 0 to MaxClock, in units of 48 hours
MaxClock == 2
\* this.MAX_RECEIVED_IDS (the program's value is 10000)
MAX_RECEIVED_IDS == 2
\* sendSignalingMessage and forward calls that may be suspended at once
MaxTasks == 2

(* Program constants *)

\* a node id is 20 bytes, written as 40 hex digits
HexLen == 40
\* new KBucket: Array(160)
NumBuckets == 160
\* this.MAX_TTL = 48 * 3600 * 1000, in the clock's units of 48 hours
MAX_TTL == 1
\* opts.cacheDistanceThreshold || Math.pow(2, 45), as 12 hex digits
DistanceThreshold == <<2, 0, 0, 0, 0, 0, 0, 0, 0, 0, 0, 0>>

----------------------------------------------------------------------------
(* Hex strings, buffers, xor *)

Min(a, b) == IF a < b THEN a ELSE b

Range(s) == {s[i] : i \in 1..Len(s)}

\* a ^ b on 4-bit values, bit by bit
NibXor ==
  [a \in 0..15 |-> [b \in 0..15 |->
     LET bit(x, j) == (x \div (2 ^ j)) % 2
     IN  ((bit(a, 3) + bit(b, 3)) % 2) * 8 + ((bit(a, 2) + bit(b, 2)) % 2) * 4
       + ((bit(a, 1) + bit(b, 1)) % 2) * 2 + ((bit(a, 0) + bit(b, 0)) % 2)]]

\* b1[i] ^ b2[i] on bytes
ByteXor(x, y) == 16 * NibXor[x \div 16][y \div 16] + NibXor[x % 16][y % 16]

\* Buffer.from(s, "hex"): two hex digits make one byte
HexToBuffer(s) == [i \in 1..(Len(s) \div 2) |-> 16 * s[2 * i - 1] + s[2 * i]]

\* buf.toString("hex"): each byte makes two hex digits
BufferToHex(b) ==
  [i \in 1..(2 * Len(b)) |->
     IF i % 2 = 1 THEN b[(i + 1) \div 2] \div 16 ELSE b[i \div 2] % 16]

\* KBucket.xorDistance(id1, id2); a byte that id2 lacks reads as undefined,
\* and x ^ undefined is x
xorDistance(id1, id2) ==
  LET b1 == HexToBuffer(id1)
      b2 == HexToBuffer(id2)
  IN  BufferToHex([i \in 1..Len(b1) |->
                     IF i <= Len(b2) THEN ByteXor(b1[i], b2[i]) ELSE b1[i]])

\* a.localeCompare(b) on strings of lower-case hex digits: the first digit
\* that differs decides, a proper prefix sorts first
LocaleCompare(a, b) ==
  LET n == Min(Len(a), Len(b))
      diff == {i \in 1..n : a[i] # b[i]}
  IN  IF diff = {}
      THEN (IF Len(a) < Len(b) THEN -1 ELSE IF Len(a) > Len(b) THEN 1 ELSE 0)
      ELSE LET i == CHOOSE j \in diff : \A l \in diff : j <= l
           IN  IF a[i] < b[i] THEN -1 ELSE 1

\* the id of index n of the model's id universe: the first hex digit is one
\* of 0, 5, a, f and the last one counts up (00..00, 50..00, a0..00, f0..00,
\* 00..01, 50..01, ..), so that ids fall into the first buckets and into the
\* last ones, several to a bucket
Hex(n) ==
  [i \in 1..HexLen |->
     IF i = 1 THEN (n % 4) * 5 ELSE IF i = HexLen THEN n \div 4 ELSE 0]

IdUniverse == 0..(NumIds - 1)

\* KBucket.xorDistance on the ids of indices a and b, computed once for
\* every pair of ids of the universe
DistanceTable ==
  [a \in IdUniverse |-> [b \in IdUniverse |-> xorDistance(Hex(a), Hex(b))]]

Distance(a, b) == DistanceTable[a][b]

----------------------------------------------------------------------------
(* KBucket (kbucket.js) *)

\* this.buckets = Array(160).fill(null).map(() => []): a table is kept as
\* the function from the indices of its non-empty buckets to these buckets
EmptyTable == [i \in {} |-> <<>>]

Bucket(tbl, i) == IF i \in DOMAIN tbl THEN tbl[i] ELSE <<>>

SetBucket(tbl, i, bucket) ==
  [j \in DOMAIN tbl \cup {i} |-> IF j = i THEN bucket ELSE tbl[j]]

\* bucketIndex counting the bits of a byte from its low end
bucketIndex_lowFirst(distance) ==
  LET d == HexToBuffer(distance)
      set == {q[1] * 8 + q[2] :
                q \in {p \in (0..(Len(d) - 1)) \X (0..7) :
                         (d[p[1] + 1] \div (2 ^ p[2])) % 2 # 0}}
  IN  IF set = {} THEN 0 ELSE CHOOSE h \in set : \A g \in set : h <= g

\* KBucket.bucketIndex(distance): the first set bit, bytes in order and in
\* each byte j = 7 down to 0; 0 when no bit is set
bucketIndex(distance) ==
  LET d == HexToBuffer(distance)
      set == {q[1] * 8 + (7 - q[2]) :
                q \in {p \in (0..(Len(d) - 1)) \X (0..7) :
                         (d[p[1] + 1] \div (2 ^ p[2])) % 2 # 0}}
  IN  IF set = {} THEN 0 ELSE CHOOSE h \in set : \A g \in set : h <= g

\* bucketIndex of the distance between the ids of indices a and b, computed
\* once for every pair of ids of the universe
BucketIndexTable ==
  [a \in IdUniverse |-> [b \in IdUniverse |-> bucketIndex(Distance(a, b))]]

\* KBucket.all(): this.buckets.flat(), the buckets in the order of their
\* indices (the empty ones add nothing)
RECURSIVE Flat(_, _)
Flat(tbl, indices) ==
  IF indices = {} THEN <<>>
  ELSE LET i == CHOOSE j \in indices : \A l \in indices : j <= l
       IN  tbl[i] \o Flat(tbl, indices \ {i})

all(tbl) == Flat(tbl, DOMAIN tbl)

\* add without the test for the local id
KBucketAdd_noSelfTest(tbl, localId, id) ==
  LET index == BucketIndexTable[localId][id]
      bucket == Bucket(tbl, index)
  IN  IF id \in Range(bucket) THEN tbl
      ELSE IF Len(bucket) < K
           THEN SetBucket(tbl, index, Append(bucket, id))
           ELSE SetBucket(tbl, index, Append(Tail(bucket), id))

\* add that pushes without the shift of a full bucket
KBucketAdd_noShift(tbl, localId, id) ==
  IF id = localId THEN tbl
  ELSE LET index == BucketIndexTable[localId][id]
           bucket == Bucket(tbl, index)
       IN  IF id \in Range(bucket) THEN tbl
           ELSE SetBucket(tbl, index, Append(bucket, id))

\* add that drops the last contact of a full bucket (pop for shift)
KBucketAdd_pop(tbl, localId, id) ==
  IF id = localId THEN tbl
  ELSE LET index == BucketIndexTable[localId][id]
           bucket == Bucket(tbl, index)
       IN  IF id \in Range(bucket) THEN tbl
           ELSE IF Len(bucket) < K
                THEN SetBucket(tbl, index, Append(bucket, id))
                ELSE SetBucket(tbl, index,
                               Append(SubSeq(bucket, 1, Len(bucket) - 1), id))

\* KBucket.add(node) on the table of the node whose id is localId
KBucketAdd(tbl, localId, id) ==
  IF id = localId THEN tbl
  ELSE LET index == BucketIndexTable[localId][id]
           bucket == Bucket(tbl, index)
       IN  IF id \in Range(bucket) THEN tbl
           ELSE IF Len(bucket) < K
                THEN SetBucket(tbl, index, Append(bucket, id))
                ELSE SetBucket(tbl, index, Append(Tail(bucket), id))

\* a.distance.localeCompare(b.distance) for the contacts a and b and the
\* target t, computed once for all ids of the universe
CompareTable ==
  [t \in IdUniverse |-> [a \in IdUniverse |-> [b \in IdUniverse |->
     LocaleCompare(Distance(a, t), Distance(b, t))]]]

\* Array.prototype.sort with (a, b) => a.distance.localeCompare(b.distance):
\* a stable sort, here by insertion
RECURSIVE InsertByDistance(_, _, _)
InsertByDistance(sorted, id, target) ==
  IF sorted = <<>> THEN <<id>>
  ELSE IF CompareTable[target][id][Head(sorted)] < 0
       THEN <<id>> \o sorted
       ELSE <<Head(sorted)>> \o InsertByDistance(Tail(sorted), id, target)

RECURSIVE SortByDistance(_, _)
SortByDistance(ids, target) ==
  IF ids = <<>> THEN <<>>
  ELSE InsertByDistance(SortByDistance(SubSeq(ids, 1, Len(ids) - 1), target),
                        ids[Len(ids)], target)

\* closest that slices before it sorts
closest_sliceFirst(tbl, target, k) ==
  SortByDistance(SubSeq(all(tbl), 1, Min(k, Len(all(tbl)))), target)

\* KBucket.closest(target, k)
closest(tbl, target, k) ==
  LET distances == SortByDistance(all(tbl), target)
  IN  SubSeq(distances, 1, Min(k, Len(distances)))

----------------------------------------------------------------------------
(* The message cache (cache-strategy.js).  Both variants keep a Map
   cachedMessages and an array accessOrder.  A cache is a record
     cachedMessages : the Map, as the sequence of its entries in insertion
                      order (the order a Map iterates in),
     accessOrder    : the array of ids,
     passes         : the tryToDeliverCachedMessages calls in progress.
   A pass iterates the live Map: its iterator is the number pos of Map
   slots it has consumed.  Deleting an entry frees its slot, so the
   iterators behind which the slot lies move back by one; an entry set
   during a pass is appended and is visited by the pass. *)

\* a message without an id (message.id is undefined)
NoId == 0
\* a message without a timestamp (message.timestamp is undefined)
NoTs == -1
NoEntry == [id |-> NoId, sender |-> 0, recipient |-> 0, ts |-> NoTs]

\* toRemove is kept as a set: the pass only deletes each of its ids at its
\* end, in any order and any number of times with the same result
\* ping is the id of the ping findAndPingNode waits for (0: none, it will
\* return null), ok the value rpc.sendMessage has returned to the pass
IdlePass ==
  [pc |-> "idle", pos |-> 0, cur |-> NoEntry, toRemove |-> {}, now |-> 0,
   ping |-> 0, ok |-> FALSE]

\* new Map(), [], no call in progress; events are the events the strategy
\* has emitted in its last call or in the last continuation of a call
EmptyCache(slots) ==
  [cachedMessages |-> <<>>, accessOrder |-> <<>>,
   passes |-> [s \in 1..slots |-> IdlePass], events |-> <<>>]

\* this.emit(event)
Emit(c, event) == [c EXCEPT !.events = Append(@, event)]

\* a call or a continuation begins
Called(c) == [c EXCEPT !.events = <<>>]

CachedIds(c) == {c.cachedMessages[i].id : i \in 1..Len(c.cachedMessages)}

\* array.filter(x => x !== id)
RECURSIVE Without(_, _)
Without(seq, id) ==
  IF seq = <<>> THEN <<>>
  ELSE IF Head(seq) = id THEN Without(Tail(seq), id)
       ELSE <<Head(seq)>> \o Without(Tail(seq), id)

\* this.cachedMessages.delete(id)
MapDelete(c, id) ==
  IF id \notin CachedIds(c) THEN c
  ELSE LET p == CHOOSE i \in 1..Len(c.cachedMessages) :
                  c.cachedMessages[i].id = id
       IN  [c EXCEPT
              !.cachedMessages =
                 SubSeq(c.cachedMessages, 1, p - 1)
                   \o SubSeq(c.cachedMessages, p + 1, Len(c.cachedMessages)),
              !.passes = [s \in DOMAIN c.passes |->
                            IF c.passes[s].pos >= p
                            THEN [c.passes[s] EXCEPT !.pos = @ - 1]
                            ELSE c.passes[s]]]

\* this.cachedMessages.set(id, entry) for an id the Map does not hold
MapSet(c, entry) ==
  [c EXCEPT !.cachedMessages = Append(@, entry)]

\* parseInt(distanceHex.substring(0, 12), 16) > threshold, both numbers
\* written as hex digits, most significant first; a number of fewer digits
\* (without leading zeros) is the smaller one
StripZeros(h) ==
  LET nz == {i \in 1..Len(h) : h[i] # 0}
  IN  IF nz = {} THEN <<>>
      ELSE SubSeq(h, CHOOSE i \in nz : \A j \in nz : i <= j, Len(h))

\* a comparison that takes equal numbers for greater
HexGreater_orEqual(a, b) ==
  LET x == StripZeros(a)
      y == StripZeros(b)
  IN  IF Len(x) # Len(y) THEN Len(x) > Len(y) ELSE LocaleCompare(x, y) >= 0

HexGreater(a, b) ==
  LET x == StripZeros(a)
      y == StripZeros(b)
  IN  IF Len(x) # Len(y) THEN Len(x) > Len(y) ELSE LocaleCompare(x, y) > 0

\* const distance = parseInt(distanceHex.substring(0, 12), 16) || 0, kept
\* as its hex digits
distanceHexShort(distanceHex) ==
  SubSeq(distanceHex, 1, Min(12, Len(distanceHex)))

CacheDistance(self, recipient) == distanceHexShort(Distance(self, recipient))

\* cacheMessage(sender, recipient, message, nodeId, recipientFoundInBuckets)
\* of both variants; skip is the outcome of Math.random() > cacheProbability,
\* which only the probabilistic variant draws
\* (self is the nodeId argument, found is recipientFoundInBuckets)
CacheMessage(c, kind, maxSize, threshold, sender, recipient, message, self, found, skip) ==
  IF message.id = NoId \/ message.id \in CachedIds(c) THEN Called(c)
  ELSE IF ~found /\ HexGreater(CacheDistance(self, recipient), threshold)
       THEN Called(c)
  ELSE IF ~found /\ kind = "distance_probabilistic" /\ skip
       THEN Called(c)
  ELSE LET c1 == IF Len(c.cachedMessages) >= maxSize
                 THEN IF c.accessOrder = <<>> THEN c
                      ELSE LET oldestId == Head(c.accessOrder)
                               c0 == [c EXCEPT !.accessOrder = Tail(@)]
                           IN  IF oldestId # NoId THEN MapDelete(c0, oldestId)
                               ELSE c0
                 ELSE c
           queued == [id |-> message.id, sender |-> sender,
                      recipient |-> recipient, ts |-> message.ts]
       IN  Emit([MapSet(Called(c1), queued) EXCEPT
                   !.accessOrder = Append(@, message.id)],
                "messageCached")

\* addCachedMessages(cachedMessages) of the deterministic variant; the
\* probabilistic variant throws before it changes anything
RECURSIVE AddCachedMessages(_, _, _)
AddCachedMessages(c, kind, loaded) ==
  IF kind = "distance_probabilistic" \/ loaded = <<>> THEN c
  ELSE LET e == Head(loaded)
           c1 == IF e.id \in CachedIds(c) THEN c
                 ELSE [MapSet(c, e) EXCEPT !.accessOrder = Append(@, e.id)]
       IN  AddCachedMessages(c1, kind, Tail(loaded))

\* clear()
CacheClear(c) ==
  [c EXCEPT !.cachedMessages = <<>>, !.accessOrder = <<>>, !.events = <<>>,
            !.passes = [s \in DOMAIN c.passes |->
                          [c.passes[s] EXCEPT !.pos = 0]]]

\* a test that lets an entry expire at the age of maxTTL
Expired_atBoundary(now, ts, maxTTL) == ts # NoTs /\ now - ts >= maxTTL

\* now - msg.message.timestamp > maxTTL; with no timestamp the difference
\* is NaN and the comparison is false
Expired(now, ts, maxTTL) == ts # NoTs /\ now - ts > maxTTL

\* this.accessOrder = this.accessOrder.filter(id => id !== messageId);
\* this.accessOrder.push(messageId)
MoveToTail(c, id) ==
  [c EXCEPT !.accessOrder = Append(Without(@, id), id)]

\* toRemove.forEach(id => { delete; filter }); the pass is over
RECURSIVE RemoveAll(_, _)
RemoveAll(c, ids) ==
  IF ids = {} THEN c
  ELSE LET id == CHOOSE i \in ids : TRUE
       IN  RemoveAll([MapDelete(c, id) EXCEPT
                        !.accessOrder = Without(@, id)], ids \ {id})

\* then, in the probabilistic variant only, emit('emptyCache') if the Map
\* is empty; in both variants emit('delivered')
FinishPass(c, s, kind) ==
  LET c1 == [RemoveAll(c, c.passes[s].toRemove) EXCEPT !.passes[s] = IdlePass]
      c2 == IF kind = "distance_probabilistic" /\ c1.cachedMessages = <<>>
            THEN Emit(c1, "emptyCache")
            ELSE c1
  IN  Emit(c2, "delivered")

\* the for loop of tryToDeliverCachedMessages from the iterator's position
\* to its next suspension (await findAndPingNode) or to the end of the pass
RECURSIVE RunPass(_, _, _, _)
RunPass(c, s, kind, maxTTL) ==
  LET p == c.passes[s]
  IN  IF p.pos >= Len(c.cachedMessages) THEN FinishPass(c, s, kind)
      ELSE LET msg == c.cachedMessages[p.pos + 1]
           IN  IF Expired(p.now, msg.ts, maxTTL)
               THEN RunPass([c EXCEPT !.passes[s].pos = @ + 1,
                                      !.passes[s].toRemove = @ \cup {msg.id}],
                            s, kind, maxTTL)
               ELSE [c EXCEPT !.passes[s].pos = @ + 1,
                              !.passes[s].cur = msg,
                              !.passes[s].pc = "ping"]

\* tryToDeliverCachedMessages(findAndPingNode, sendMessage, maxTTL) up to
\* its first suspension
StartPass(c, s, kind, now, maxTTL) ==
  RunPass([Called(c) EXCEPT !.passes[s] = [IdlePass EXCEPT !.now = now]],
          s, kind, maxTTL)

\* the pass resumes with the result of findAndPingNode: a live node, and
\* sendMessage is called, or null
PingResumed(c, s, kind, targetNode, maxTTL) ==
  IF targetNode THEN [Called(c) EXCEPT !.passes[s].pc = "send"]
  ELSE RunPass(MoveToTail(Called(c), c.passes[s].cur.id), s, kind, maxTTL)

\* the pass resumes with the result of sendMessage
SendResumed(c, s, kind, success, maxTTL) ==
  IF success
  THEN RunPass([Called(c) EXCEPT
                  !.passes[s].toRemove = @ \cup {c.passes[s].cur.id}],
               s, kind, maxTTL)
  ELSE RunPass(MoveToTail(Called(c), c.passes[s].cur.id), s, kind, maxTTL)

----------------------------------------------------------------------------
(* State *)

VARIABLES
  nodeId,     \* nodeId[n]: the id of node n (opts.nodeId)
  buckets,    \* buckets[n]: the KBucket table of node n
  kbOp,       \* the last routing-table operation, its argument, the table
              \* before it and the id that was evicted last before it
  cache,      \* cache[n]: the cache strategy object of node n
  cacheKind,  \* cacheKind[n]: opts.cacheStrategy of node n
  clock,      \* Date.now()
  dataChannels,                 \* dataChannels[n]: the Map of node n's
                                \* rpc, from the id of a peer to the
                                \* readyState of the data channel to it
  wire,                         \* wire[<<a, b>>]: the frames node a has
                                \* handed to its channel to node b, in order
  forwardedMessagesIds,         \* forwardedMessagesIds[n]: a Set of ids
  receivedSignalingMessageIds,  \* receivedSignalingMessageIds[n]: a Set of
                                \* ids, as the sequence of its insertions
  tasks,      \* the sendSignalingMessage and forward calls suspended in an
              \* await, in the order they began
  timers,     \* timers[n]: the setInterval timers of node n that run
  visualizationServer,   \* the module visualization-server.js: eventQueue,
                         \* isProcessingQueue, the file events.json and the
                         \* processQueue calls suspended in an await
  replacedChannels,   \* replacedChannels[n]: the peers with a data channel
                      \* that setupDataChannel has replaced in the Map of
                      \* the rpc of node n and that has not closed yet
  connectionManager,  \* the ConnectionManager of the peer that owns node 1:
                      \* its Maps and the last call of one of its methods
  log,        \* log[n]: what node n has emitted and begun so far
  step        \* the handler that ran last and what it did

netVars ==
  <<dataChannels, wire, forwardedMessagesIds, receivedSignalingMessageIds,
    tasks, timers, replacedChannels, connectionManager,
    visualizationServer, log, step>>

vars == <<nodeId, buckets, kbOp, cache, cacheKind, clock, netVars>>

kbVars == <<buckets, kbOp>>
cacheVars == <<cache, clock>>

Nodes == DOMAIN nodeId

NoOp == [op |-> "none", id |-> 0, before |-> EmptyTable, evicted |-> {}]

\* The messages 1 .. MaxMsgs have no field content, the message
\* MaxMsgs + 1 has one (message.content of forward)
HasContent(id) == id > MaxMsgs

\* nothing emitted, no forward call begun, no frame of type 'message'
\* sent.  The counts stop at 2, which is "more than once"; emitted counts
\* the events signalingMessage and chat the events chatMessage
NoLog ==
  [emitted |-> [i \in 1..MaxMsgs |-> 0],
   dispatched |-> [i \in 1..MaxMsgs |-> 0],
   started |-> {}, lateEvents |-> 0, lateSent |-> 0,
   chat |-> [i \in 1..(MaxMsgs + 1) |-> 0], userFrames |-> 0,
   closedPings |-> {}, replayed |-> [i \in 1..(MaxMsgs + 1) |-> 0]]

\* no frame
NoFrame == [type |-> "none", sender |-> 0, recipient |-> 0, id |-> NoId]

\* the record of a handler: its name and node, the frame it handled and the
\* peer the frame came from, the message id, whether the frame was dropped
\* as a duplicate, whether receivedSignalingMessageIds was pruned, and the
\* frames the handler handed to data channels, in order; for a call of the
\* rpc, the peer it was made for, whether dataChannel.send threw, and how
\* the call ended
NoStep ==
  [act |-> "init", node |-> 0, id |-> NoId, dropped |-> FALSE,
   pruned |-> FALSE, frame |-> NoFrame, from |-> 0, sent |-> <<>>,
   peer |-> 0, threw |-> FALSE, outcome |-> "none"]

\* no call of a ConnectionManager method
NoCall ==
  [method |-> "none", channel |-> <<>>, sent |-> FALSE, received |-> <<>>,
   initiated |-> <<>>]

\* new ConnectionManager(this.connections, this.dataChannels, ...) in a new
\* WebRTCPeer: both Maps are empty.  A Map is the sequence of its entries
\* in insertion order; connections holds peer ids, and pexDataChannels,
\* which is the peer's Map of all its data channels, holds the channels
\* with their keys (peer and label)
\* this.intervalId = null and this.hasTriggeredInitialConnections = false.
\* Beside the object's fields the record counts the setInterval timers of
\* start() that run (intervals), the performInitialConnections calls that
\* wait in their delay (delays) and the requests these calls have sent
\* (initialRequests)
NewConnectionManager ==
  [connections |-> <<>>, pexDataChannels |-> <<>>, call |-> NoCall,
   intervalId |-> FALSE, hasTriggeredInitialConnections |-> FALSE,
   intervals |-> 0, delays |-> 0, initialRequests |-> 0]

\* visualization-server.js when it has been loaded and
\* initializeEventsFile() has written '[]' to events.json, which is long
\* before the first peer process reports an event: eventQueue = [],
\* isProcessingQueue = false.  The file holds a JSON array of events
\* (state ok) or text that JSON.parse rejects; loops holds the
\* processQueue calls suspended in an await, pushed counts the events the
\* handler has pushed (the events are 1, 2, ... in that order), and sound
\* says that no file operation has been rejected
NewVisualizationServer ==
  [eventQueue |-> <<>>, isProcessingQueue |-> FALSE,
   file |-> [state |-> "ok", events |-> <<>>], loops |-> <<>>,
   pushed |-> 0, sound |-> TRUE]

\* the constructor's startTTLCleanup() and startReceivedIdsCleanup()
StartedTimers == {"ttlCleanup", "receivedIdsCleanup"}

\* new Map(): no data channel
NoChannels == [p \in {} |-> "open"]

\* a Map of open data channels to the peers
OpenTo(peers) == [p \in peers |-> "open"]

\* the peers a Map holds an open data channel to
OpenChannels(channels) == {p \in DOMAIN channels : channels[p] = "open"}

\* Map.set(key, value) and Map.delete(key) on a Map kept as a function
MapPut(map, key, value) ==
  [k \in DOMAIN map \cup {key} |-> IF k = key THEN value ELSE map[k]]
MapRemove(map, key) == [k \in DOMAIN map \ {key} |-> map[k]]

\* new WebRTCRPC (no data channel), new Set() twice, no call in progress
InitNet(ns) ==
  /\ dataChannels = [n \in ns |-> NoChannels]
  /\ wire = [p \in {q \in ns \X ns : q[1] # q[2]} |-> <<>>]
  /\ forwardedMessagesIds = [n \in ns |-> {}]
  /\ receivedSignalingMessageIds = [n \in ns |-> <<>>]
  /\ tasks = <<>>
  /\ timers = [n \in ns |-> StartedTimers]
  /\ replacedChannels = [n \in ns |-> {}]
  /\ connectionManager = NewConnectionManager
  /\ visualizationServer = NewVisualizationServer
  /\ log = [n \in ns |-> NoLog]
  /\ step = NoStep

----------------------------------------------------------------------------
(* The routing table alone: one node, contacts drawn from IdUniverse *)

InitKB ==
  /\ nodeId \in [{1} -> 0..(NumSelf - 1)]
  /\ buckets = [n \in {1} |-> EmptyTable]
  /\ kbOp = NoOp
  /\ cache = [n \in {1} |-> EmptyCache(MaxPasses)]
  /\ cacheKind = [n \in {1} |-> "distance"]
  /\ clock = 0
  /\ InitNet({1})

\* the ids a table holds
Contacts(tbl) == Range(all(tbl))

\* the record of an operation on the table of node n
Done(n, op, id) ==
  [op |-> op, id |-> id, before |-> buckets[n],
   evicted |-> IF Contacts(kbOp.before) \subseteq Contacts(buckets[n])
               THEN kbOp.evicted
               ELSE Contacts(kbOp.before) \ Contacts(buckets[n])]

\* this.buckets.add({ id }) as loadState calls it for each persisted id
LoadStateAdd(n, id) ==
  /\ buckets' = [buckets EXCEPT ![n] = KBucketAdd(@, nodeId[n], id)]
  /\ kbOp' = Done(n, "add", id)
  /\ UNCHANGED <<netVars, nodeId, cache, cacheKind, clock>>

\* DHT.addNode(node): add unless some bucket holds the id
AddNodeTable(tbl, localId, id) ==
  IF id \in Range(all(tbl)) THEN tbl ELSE KBucketAdd(tbl, localId, id)

IdleSlots(c) == {s \in DOMAIN c.passes : c.passes[s].pc = "idle"}

\* DHT.addNode(node), called on the rpc's ping and listening events and by
\* handleMessage: alive is true, so for a new node
\* tryToDeliverCachedMessagesToTarget starts a pass over the cache
AddNode(n, id) ==
  /\ id \in Contacts(buckets[n]) \/ IdleSlots(cache[n]) # {}
  /\ buckets' = [buckets EXCEPT ![n] = AddNodeTable(@, nodeId[n], id)]
  /\ kbOp' = Done(n, "addNode", id)
  /\ cache' = IF id \in Contacts(buckets[n]) THEN cache
              ELSE [cache EXCEPT ![n] =
                      StartPass(@, CHOOSE s \in IdleSlots(@) : TRUE,
                                cacheKind[n], clock, MAX_TTL)]
  /\ UNCHANGED <<netVars, nodeId, cacheKind, clock>>

NextKB ==
  \/ \E n \in Nodes, id \in IdUniverse : LoadStateAdd(n, id)
  \/ \E n \in Nodes, id \in IdUniverse : AddNode(n, id)

SpecKB == InitKB /\ [][NextKB]_vars

\* the bits of a hex string, most significant first
Bits(h) ==
  [i \in 1..(4 * Len(h)) |->
     (h[(i + 3) \div 4] \div (2 ^ (3 - ((i - 1) % 4)))) % 2]

\* the position of the highest-order set bit, counted from 0 at the most
\* significant bit; 0 by convention for the distance 0
HighestBit(h) ==
  LET bits == Bits(h)
      ones == {i \in 1..(4 * Len(h)) : bits[i] = 1}
  IN  IF ones = {} THEN 0
      ELSE (CHOOSE i \in ones : \A j \in ones : i <= j) - 1

\* a < b for two distances of the same length read as unsigned big-endian
\* integers
UnsignedLess(a, b) ==
  LET x == Bits(a)
      y == Bits(b)
  IN  \E i \in 1..(4 * Len(a)) :
        /\ x[i] = 0
        /\ y[i] = 1
        /\ \A j \in 1..(i - 1) : x[j] = y[j]

\* the two, computed once for every distance between ids of the universe
HighestBitTable ==
  [a \in IdUniverse |-> [b \in IdUniverse |-> HighestBit(Distance(a, b))]]

\* LessTable[t][a][b]: a is closer to t than b is
LessTable ==
  [t \in IdUniverse |-> [a \in IdUniverse |-> [b \in IdUniverse |->
     UnsignedLess(Distance(a, t), Distance(b, t))]]]

Closer(a, b, t) == LessTable[t][a][b]

\* C3: every contact c stored in bucket i satisfies
\* bucket_index(xor(self_id, c.id)) = i
C3_Placement ==
  \A n \in Nodes : \A i \in DOMAIN buckets[n] :
    \A c \in Range(buckets[n][i]) :
      HighestBitTable[nodeId[n]][c] = i

\* contacts in a bucket of the first byte and in one of the last byte
C3_Witness ==
  \E n \in Nodes : \E i, j \in DOMAIN buckets[n] :
    /\ i < 8 /\ j >= NumBuckets - 8
    /\ buckets[n][i] # <<>> /\ buckets[n][j] # <<>>
    /\ kbOp.op = "addNode"

\* C4: the self id is stored in no bucket and every id occurs in at most one
\* slot over all buckets
C4_NoSelfNoDuplicate ==
  \A n \in Nodes :
    /\ nodeId[n] \notin Contacts(buckets[n])
    /\ \A i, j \in 1..Len(all(buckets[n])) :
         i # j => all(buckets[n])[i] # all(buckets[n])[j]

\* add(self_id) was called on a table that holds contacts, and before it an
\* add of an id the table already held
C4_Witness ==
  \E n \in Nodes :
    /\ kbOp.op = "add" /\ kbOp.id = nodeId[n]
    /\ Len(all(buckets[n])) >= 2
    /\ buckets[n] = kbOp.before

\* C5: every bucket holds at most k contacts
C5_BucketSize ==
  \A n \in Nodes : \A i \in DOMAIN buckets[n] : Len(buckets[n][i]) <= K

\* an add into a bucket that held k contacts
C5_Witness ==
  \E n \in Nodes :
    /\ kbOp.op = "add"
    /\ kbOp.id # nodeId[n]
    /\ kbOp.id \notin Contacts(kbOp.before)
    /\ Len(Bucket(kbOp.before, HighestBitTable[nodeId[n]][kbOp.id])) = K

\* C6: an add of an id not present into a bucket that holds k contacts
\* removes the front contact and appends the new one at the tail (so does a
\* later add of an evicted id); every other bucket and the order of the
\* other contacts stay; an add of an id already present, or of the self id,
\* leaves the table unchanged
C6_BucketLRU ==
  \A n \in Nodes :
    kbOp.op = "add" =>
      LET i == HighestBitTable[nodeId[n]][kbOp.id]
          old == Bucket(kbOp.before, i)
      IN  IF kbOp.id = nodeId[n] \/ kbOp.id \in Contacts(kbOp.before)
          THEN buckets[n] = kbOp.before
          ELSE /\ \A j \in (DOMAIN buckets[n] \cup DOMAIN kbOp.before) \ {i} :
                    Bucket(buckets[n], j) = Bucket(kbOp.before, j)
               /\ Bucket(buckets[n], i) =
                    IF Len(old) = K
                    THEN SubSeq(old, 2, Len(old)) \o <<kbOp.id>>
                    ELSE old \o <<kbOp.id>>

\* an id that an earlier add evicted was added again, into a full bucket
C6_Witness ==
  \E n \in Nodes :
    /\ kbOp.op = "add"
    /\ kbOp.id \in kbOp.evicted
    /\ kbOp.id \notin Contacts(kbOp.before)
    /\ Len(Bucket(kbOp.before, HighestBitTable[nodeId[n]][kbOp.id])) = K
    /\ kbOp.id \in Contacts(buckets[n])

\* C7: closest(target, k) returns the min(k, n) stored contacts with the
\* smallest XOR distance to target in ascending order of the distance read
\* as an unsigned big-endian integer, and the empty list on an empty table
C7_Closest ==
  \A n \in Nodes : \A target \in IdUniverse : \A k \in 0..(K + 1) :
    LET r == closest(buckets[n], target, k)
        stored == Contacts(buckets[n])
    IN  /\ Len(r) = Min(k, Cardinality(stored))
        /\ Range(r) \subseteq stored
        /\ \A i, j \in 1..Len(r) :
             i < j => Closer(r[i], r[j], target)
        /\ \A c \in stored \ Range(r) : \A x \in Range(r) :
             Closer(x, c, target)
        /\ (stored = {} => r = <<>>)

\* a table of more than k contacts whose closest k contacts to some target
\* are not its first k contacts in bucket order
C7_Witness ==
  \E n \in Nodes : \E target \in IdUniverse :
    /\ Len(all(buckets[n])) > K
    /\ closest(buckets[n], target, K) # SubSeq(all(buckets[n]), 1, K)

----------------------------------------------------------------------------
(* The cache alone: one node; findAndPingNode and sendMessage are the
   caller's, their results are drawn *)

\* The messages of the model: message i is addressed to one recipient and
\* carries the timestamp its originator gave it.  Odd ids go to a recipient
\* close to node id 0 (00..01), even ids to a far one (50..00); ids 3, 6, ..
\* were created one clock unit after the others.
RecipientOf(i) == IF i % 2 = 1 THEN 4 ELSE 1
TsOf(i) == IF i % 3 = 0 THEN 1 ELSE 0
Message(i) == [id |-> i, ts |-> TsOf(i)]

CacheEntries ==
  {[id |-> i, sender |-> 0, recipient |-> RecipientOf(i), ts |-> TsOf(i)] :
     i \in 1..MaxMsgs}

\* the persisted Maps of at most MaxLoad entries: distinct keys
Loads ==
  UNION {{l \in [1..len -> CacheEntries] :
            \A i, j \in 1..len : i # j => l[i].id # l[j].id} :
         len \in 1..MaxLoad}

InitCache ==
  /\ nodeId = [n \in {1} |-> 0]
  /\ buckets = [n \in {1} |-> EmptyTable]
  /\ kbOp = NoOp
  /\ cache = [n \in {1} |-> EmptyCache(MaxPasses)]
  /\ cacheKind \in [{1} -> {"distance", "distance_probabilistic"}]
  /\ clock = 0
  /\ InitNet({1})

\* DHT.cacheMessage -> cacheStrategy.cacheMessage(sender, recipient, message,
\* this.nodeId, recipientFoundInBuckets)
CacheMsg(n, message, recipient, found, skip) ==
  /\ cache' = [cache EXCEPT ![n] =
                 CacheMessage(@, cacheKind[n], MaxSize, DistanceThreshold,
                              nodeId[n], recipient, message, nodeId[n],
                              found, skip)]
  /\ UNCHANGED <<netVars, nodeId, buckets, kbOp, cacheKind, clock>>

\* a call of tryToDeliverCachedMessages (the TTL timer, addNode, listening)
TryDeliver(n, s) ==
  /\ cache[n].passes[s].pc = "idle"
  /\ cache' = [cache EXCEPT ![n] = StartPass(@, s, cacheKind[n], clock, MAX_TTL)]
  /\ UNCHANGED <<netVars, nodeId, buckets, kbOp, cacheKind, clock>>

\* await findAndPingNode(msg.recipient) returns
PassPing(n, s, targetNode) ==
  /\ cache[n].passes[s].pc = "ping"
  /\ cache' = [cache EXCEPT ![n] = PingResumed(@, s, cacheKind[n], targetNode,
                                               MAX_TTL)]
  /\ UNCHANGED <<netVars, nodeId, buckets, kbOp, cacheKind, clock>>

\* await sendMessage(targetNode, ...) returns
PassSend(n, s, success) ==
  /\ cache[n].passes[s].pc = "send"
  /\ cache' = [cache EXCEPT ![n] = SendResumed(@, s, cacheKind[n], success,
                                               MAX_TTL)]
  /\ UNCHANGED <<netVars, nodeId, buckets, kbOp, cacheKind, clock>>

\* loadState -> cacheStrategy.addCachedMessages(new Map(messagesArray))
BulkLoad(n, loaded) ==
  /\ cache' = [cache EXCEPT ![n] = AddCachedMessages(Called(@), cacheKind[n], loaded)]
  /\ UNCHANGED <<netVars, nodeId, buckets, kbOp, cacheKind, clock>>

\* close() -> cacheStrategy.clear()
Clear(n) ==
  /\ cache' = [cache EXCEPT ![n] = CacheClear(@)]
  /\ UNCHANGED <<netVars, nodeId, buckets, kbOp, cacheKind, clock>>

Tick ==
  /\ clock < MaxClock
  /\ clock' = clock + 1
  /\ UNCHANGED <<netVars, nodeId, buckets, kbOp, cache, cacheKind>>

NextCache ==
  \/ \E n \in Nodes, i \in 0..MaxMsgs, found \in BOOLEAN, skip \in BOOLEAN :
       /\ TsOf(i) <= clock
       /\ CacheMsg(n, Message(i), RecipientOf(i), found, skip)
  \/ \E n \in Nodes, s \in 1..MaxPasses : TryDeliver(n, s)
  \/ \E n \in Nodes, s \in 1..MaxPasses, t \in BOOLEAN : PassPing(n, s, t)
  \/ \E n \in Nodes, s \in 1..MaxPasses, ok \in BOOLEAN : PassSend(n, s, ok)
  \/ \E n \in Nodes, l \in Loads : BulkLoad(n, l)
  \/ \E n \in Nodes : Clear(n)
  \/ Tick

SpecCache == InitCache /\ [][NextCache]_vars

\* C1: the key set of entries equals the set of ids in order, no id occurs
\* twice in order, and the cache holds at most max_size entries
C1_CacheInvariant ==
  \A n \in Nodes :
    /\ CachedIds(cache[n]) = Range(cache[n].accessOrder)
    /\ \A i, j \in 1..Len(cache[n].accessOrder) :
         i # j => cache[n].accessOrder[i] # cache[n].accessOrder[j]
    /\ Len(cache[n].cachedMessages) <= MaxSize

----------------------------------------------------------------------------
(* The link RPC (webrtc-rpc.js), the forwarding strategy
   (forward-strategy.js) and the signaling side of the DHT node (dht.js).

   A handler is a function from the state of the whole system to its state
   after the handler's synchronous run: the record st holds the variables a
   handler may change.  An async call that reaches an await leaves a task
   in st.tasks; the task's continuation is a handler of its own.

   A frame is a record  type, sender, recipient, id : for "signaling" the
   id is signalingMessage.id, for "ping" and "pong" it is the ping's id. *)

State ==
  [buckets |-> buckets, cache |-> cache, dataChannels |-> dataChannels,
   wire |-> wire, forwarded |-> forwardedMessagesIds,
   received |-> receivedSignalingMessageIds, tasks |-> tasks,
   timers |-> timers, replaced |-> replacedChannels, log |-> log,
   sent |-> <<>>]

\* the model's node of an id, if the id is one of the model's nodes
IsNode(id) == \E n \in Nodes : nodeId[n] = id
NodeOf(id) == CHOOSE n \in Nodes : nodeId[n] = id

\* a test that only asks whether the Map holds a channel
ChannelOpen_inMap(st, n, to) == to \in DOMAIN st.dataChannels[n]

\* dataChannel && dataChannel.readyState === 'open'
ChannelOpen(st, n, to) == to \in OpenChannels(st.dataChannels[n])

\* dataChannel.send(JSON.stringify(frame)): the frame travels to the peer;
\* a peer outside the model's nodes takes it out of the model
ChannelSend(st, n, to, frame) ==
  LET st1 == [st EXCEPT !.sent = Append(@, [to |-> to, frame |-> frame])]
  IN  IF IsNode(to) /\ to # nodeId[n]
      THEN [st1 EXCEPT !.wire[<<n, NodeOf(to)>>] = Append(@, frame)]
      ELSE st1

Bump(c) == Min(c + 1, 2)

\* WebRTCRPC.sendMessage(node, sender, recipient, message,
\* signalingMessage) up to its return: true and the frame is sent, or
\* false; signaling says that the argument signalingMessage is not null
RpcSendMessage(st, n, to, sender, recipient, id, signaling) ==
  IF ChannelOpen(st, n, to)
  THEN LET st1 == ChannelSend(st, n, to,
                    [type |-> IF signaling THEN "signaling" ELSE "message",
                     sender |-> sender, recipient |-> recipient, id |-> id])
       IN  IF signaling THEN st1
           ELSE [st1 EXCEPT !.log[n].userFrames = Bump(@)]
  ELSE st

\* uuid(): an id no pending ping and no frame in flight carries
PingIdsInUse(st) ==
  {st.tasks[i].ping : i \in 1..Len(st.tasks)} \cup
  UNION {{st.cache[n].passes[s].ping : s \in DOMAIN st.cache[n].passes} :
         n \in DOMAIN st.cache} \cup
  UNION {{st.wire[p][i].id : i \in {j \in 1..Len(st.wire[p]) :
                                      st.wire[p][j].type \in {"ping", "pong"}}} :
         p \in DOMAIN st.wire}

FreshPingId(st) ==
  CHOOSE i \in 1..(Cardinality(PingIdsInUse(st)) + 1) :
    /\ i \notin PingIdsInUse(st)
    /\ \A j \in 1..(i - 1) : j \in PingIdsInUse(st)

RemoveTask(st, i) ==
  [st EXCEPT !.tasks = SubSeq(@, 1, i - 1) \o SubSeq(@, i + 1, Len(@))]

\* findAndPingNode(targetId) up to its await, called by the pass s that
\* has reached an entry: rpc.ping(node) if the target is among the k
\* closest contacts, which sends a ping on an open channel
FindAndPingNode(st, n, s) ==
  LET targetId == st.cache[n].passes[s].cur.recipient
  IN  IF /\ targetId \in Range(closest(st.buckets[n], targetId, K))
         /\ ChannelOpen(st, n, targetId)
      THEN LET pingId == FreshPingId(st)
           IN  [ChannelSend(st, n, targetId,
                            [type |-> "ping", sender |-> nodeId[n],
                             recipient |-> targetId, id |-> pingId])
                EXCEPT !.cache[n].passes[s].ping = pingId]
      ELSE [st EXCEPT !.cache[n].passes[s].ping = 0]

\* the callbacks of tryToDeliverCachedMessagesToTarget: a pass that has
\* stopped at an entry has called findAndPingNode
Replay(st, n, s) ==
  IF st.cache[n].passes[s].pc = "ping" THEN FindAndPingNode(st, n, s)
  ELSE st

\* tryToDeliverCachedMessagesToTarget(): a pass begins in a slot that is
\* free
TryToDeliver(st, n) ==
  LET s == CHOOSE slot \in IdleSlots(st.cache[n]) : TRUE
  IN  Replay([st EXCEPT !.cache[n] =
                StartPass(@, s, cacheKind[n], clock, MAX_TTL)], n, s)

\* DHT.addNode(node) and the pass over the cache it starts for a new node
AddNodeNet(st, n, id) ==
  IF id \in Contacts(st.buckets[n]) THEN st
  ELSE TryToDeliver([st EXCEPT !.buckets[n] = KBucketAdd(@, nodeId[n], id)],
                    n)

\* a pass that hands the cached message to rpc.sendMessage as a signaling
\* message
PassPonged_asSignaling(st, n, s) ==
  LET msg == st.cache[n].passes[s].cur
      st1 == [st EXCEPT
                !.cache[n] = PingResumed(@, s, cacheKind[n], TRUE, MAX_TTL),
                !.cache[n].passes[s].ping = 0,
                !.cache[n].passes[s].ok = ChannelOpen(st, n, msg.recipient)]
  IN  RpcSendMessage(st1, n, msg.recipient, msg.sender, msg.recipient,
                     msg.id, TRUE)

\* the pass s resumes with the node findAndPingNode has found alive and
\* calls sendMessage(targetNode, msg.sender, msg.recipient, msg.message),
\* which is rpc.sendMessage with no signalingMessage
PassPonged(st, n, s) ==
  LET msg == st.cache[n].passes[s].cur
      st1 == [st EXCEPT
                !.cache[n] = PingResumed(@, s, cacheKind[n], TRUE, MAX_TTL),
                !.cache[n].passes[s].ping = 0,
                !.cache[n].passes[s].ok = ChannelOpen(st, n, msg.recipient)]
      st2 == RpcSendMessage(st1, n, msg.recipient, msg.sender, msg.recipient,
                            msg.id, FALSE)
  IN  IF ChannelOpen(st, n, msg.recipient)
      THEN [st2 EXCEPT !.log[n].replayed[msg.id] = Bump(@)]
      ELSE st2

\* the pass s resumes with null from findAndPingNode: no such contact, no
\* open channel, or the ping's timer has fired
PassPingNull(st, n, s) ==
  Replay([st EXCEPT
            !.cache[n] = PingResumed(@, s, cacheKind[n], FALSE, MAX_TTL)],
         n, s)

\* a pass that takes every sendMessage as failed
PassSendReturned_neverDelivered(st, n, s) ==
  Replay([st EXCEPT
            !.cache[n] = SendResumed(@, s, cacheKind[n], FALSE, MAX_TTL)],
         n, s)

\* the pass s resumes with the value of sendMessage
PassSendReturned(st, n, s) ==
  Replay([st EXCEPT
            !.cache[n] = SendResumed(@, s, cacheKind[n],
                                     st.cache[n].passes[s].ok, MAX_TTL)],
         n, s)

\* peerDistanceToTarget < selfDistanceToTarget: the strings are compared by
\* code units, and the digits 0-9 come before the letters a-f
JsStringLess(a, b) ==
  LET n == Min(Len(a), Len(b))
      diff == {i \in 1..n : a[i] # b[i]}
  IN  IF diff = {} THEN Len(a) < Len(b)
      ELSE LET i == CHOOSE j \in diff : \A l \in diff : j <= l
           IN  a[i] < b[i]

\* a filter of forward that lets the sender pass
PeersToForward_toSender(tbl, self, sender, recipient, force) ==
  SelectSeq(closest(tbl, recipient, K),
            LAMBDA p : /\ p # self
                       /\ \/ force
                          \/ JsStringLess(Distance(p, recipient),
                                          Distance(self, recipient)))

\* the filter of forward: never the sender or the node itself and, unless
\* forceForwardingToKPeers, only peers closer to the recipient than the node
PeersToForward(tbl, self, sender, recipient, force) ==
  SelectSeq(closest(tbl, recipient, K),
            LAMBDA p : /\ p # sender
                       /\ p # self
                       /\ \/ force
                          \/ JsStringLess(Distance(p, recipient),
                                          Distance(self, recipient)))

\* the body of forward's loop up to its await: emit("sent") and
\* rpc.sendMessage to the first of the peers that are left
ForwardSend(st, i) ==
  LET t == st.tasks[i]
      peer == Head(t.rest)
      late == t.late /\ ChannelOpen(st, t.node, peer)
      isSignaling == ~HasContent(t.id)
  IN  [RpcSendMessage(st, t.node, peer, t.sender, t.recipient, t.id,
                      isSignaling)
       EXCEPT !.log[t.node].lateSent = IF late THEN 1 ELSE @]

ForwardTask(n, sender, recipient, id, peers, late) ==
  [kind |-> "forward", node |-> n, pc |-> "send", sender |-> sender,
   recipient |-> recipient, id |-> id, rest |-> peers, ping |-> 0,
   ok |-> FALSE, late |-> late]

\* forwardStrategy.forward(...) up to its first await or, with no peer to
\* forward to, to its end
StartForward(st, n, sender, recipient, id, force) ==
  LET late == id \in st.log[n].started
      st0 == [st EXCEPT !.log[n].started = @ \cup {id}]
  IN  IF id # NoId /\ id \in st.forwarded[n] THEN st0
      ELSE LET peers == PeersToForward(st.buckets[n], nodeId[n], sender,
                                       recipient, force)
               st1 == [st0 EXCEPT
                         !.log[n].lateEvents = IF late THEN 1 ELSE @]
           IN  IF peers = <<>>
               THEN [st1 EXCEPT !.forwarded[n] =
                                  IF id # NoId THEN @ \cup {id} ELSE @]
               ELSE ForwardSend(
                      [st1 EXCEPT !.tasks =
                         Append(@, ForwardTask(n, sender, recipient, id,
                                               peers, late))],
                      Len(st1.tasks) + 1)

\* a forward whose loop ends at a peer without an open channel
ForwardResumed_stopsAtClosed(st, i) ==
  LET t == st.tasks[i]
  IN  IF Tail(t.rest) # <<>> /\ ChannelOpen(st, t.node, Head(t.rest))
      THEN ForwardSend([st EXCEPT !.tasks[i].rest = Tail(@)], i)
      ELSE RemoveTask([st EXCEPT !.forwarded[t.node] =
                                   IF t.id # NoId THEN @ \cup {t.id} ELSE @],
                      i)

\* forward resumes after await rpc.sendMessage: emit("forward"), the next
\* peer or, after the last one, forwardedMessagesIds.add(messageId)
ForwardResumed(st, i) ==
  LET t == st.tasks[i]
  IN  IF Tail(t.rest) # <<>>
      THEN ForwardSend([st EXCEPT !.tasks[i].rest = Tail(@)], i)
      ELSE RemoveTask([st EXCEPT !.forwarded[t.node] =
                                   IF t.id # NoId THEN @ \cup {t.id} ELSE @],
                      i)

SignalingTask(n, sender, recipient, id, pingId) ==
  [kind |-> "sendSignalingMessage", node |-> n, pc |-> "ping",
   sender |-> sender, recipient |-> recipient, id |-> id, rest |-> <<>>,
   ping |-> pingId, ok |-> FALSE, late |-> FALSE]

\* sendSignalingMessage(recipient, signalingMessage, sender) up to its first
\* await: rpc.ping(target) sends a ping frame on an open channel and returns
\* false (ping 0) on any other, and a recipient the table does not hold is
\* routed through forward.  originNode is handed on to forward, which does
\* not read it
StartSendSignaling(st, n, recipient, id, sender) ==
  IF recipient \in Contacts(st.buckets[n])
  THEN IF ChannelOpen(st, n, recipient)
       THEN LET pingId == FreshPingId(st)
            IN  [ChannelSend(st, n, recipient,
                             [type |-> "ping", sender |-> nodeId[n],
                              recipient |-> recipient, id |-> pingId])
                 EXCEPT !.tasks = Append(@, SignalingTask(n, sender,
                                            recipient, id, pingId))]
       ELSE [st EXCEPT !.tasks = Append(@, SignalingTask(n, sender,
                                           recipient, id, 0))]
  ELSE StartForward(st, n, sender, recipient, id, FALSE)

\* a cacheMessage that hands the strategy true for recipientFoundInBuckets
\* whatever the caller found
DhtCacheMessage_alwaysFound(st, n, recipient, id, found) ==
  [st EXCEPT !.cache[n] =
     CacheMessage(@, cacheKind[n], MaxSize, DistanceThreshold, nodeId[n],
                  recipient, Message(id), nodeId[n], TRUE, FALSE)]

\* DHT.cacheMessage(this.nodeId, recipient, message,
\* recipientFoundInBuckets); the draw of the probabilistic variant is taken
\* as not skipping
DhtCacheMessage(st, n, recipient, id, found) ==
  [st EXCEPT !.cache[n] =
     CacheMessage(@, cacheKind[n], MaxSize, DistanceThreshold, nodeId[n],
                  recipient, Message(id), nodeId[n], found, FALSE)]

\* the else branches of sendMessage: this.cacheMessage(this.nodeId,
\* recipient, message, found); this.forward(sender, recipient, message,
\* found), where the fourth argument of forward is originNode and
\* forceForwardingToKPeers keeps its default, false
CacheAndForward(st, n, sender, recipient, id, found) ==
  StartForward(DhtCacheMessage(st, n, recipient, id, found), n, sender,
               recipient, id, FALSE)

SendMessageTask(n, sender, recipient, id, pingId) ==
  [kind |-> "sendMessage", node |-> n, pc |-> "ping", sender |-> sender,
   recipient |-> recipient, id |-> id, rest |-> <<>>, ping |-> pingId,
   ok |-> FALSE, late |-> FALSE]

\* sendMessage(recipient, message) up to its first await, sender being
\* message.senderId
StartSendMessage(st, n, recipient, id, sender) ==
  IF recipient \in Contacts(st.buckets[n])
  THEN IF ChannelOpen(st, n, recipient)
       THEN LET pingId == FreshPingId(st)
            IN  [ChannelSend(st, n, recipient,
                             [type |-> "ping", sender |-> nodeId[n],
                              recipient |-> recipient, id |-> pingId])
                 EXCEPT !.tasks = Append(@, SendMessageTask(n, sender,
                                            recipient, id, pingId))]
       ELSE [st EXCEPT !.tasks = Append(@, SendMessageTask(n, sender,
                                           recipient, id, 0))]
  ELSE CacheAndForward(st, n, sender, recipient, id, FALSE)

\* a sendSignalingMessage that caches what it cannot deliver, as sendMessage
\* does
PingReturned_cachesSignaling(st, i, alive) ==
  LET t == st.tasks[i]
  IN  IF alive
      THEN [RpcSendMessage(st, t.node, t.recipient, t.sender, t.recipient,
                           t.id, t.kind = "sendSignalingMessage")
            EXCEPT !.tasks[i].pc = "send", !.tasks[i].ping = 0,
                   !.tasks[i].ok = ChannelOpen(st, t.node, t.recipient)]
      ELSE CacheAndForward(RemoveTask(st, i), t.node, t.sender, t.recipient,
                           t.id, TRUE)

\* sendSignalingMessage or sendMessage resumes with the result of rpc.ping
PingReturned(st0, i, alive) ==
  LET t == st0.tasks[i]
      st == [st0 EXCEPT !.log[t.node].closedPings = @ \ {t.ping}]
  IN  IF alive
      THEN [RpcSendMessage(st, t.node, t.recipient, t.sender, t.recipient,
                           t.id, t.kind = "sendSignalingMessage")
            EXCEPT !.tasks[i].pc = "send", !.tasks[i].ping = 0,
                   !.tasks[i].ok = ChannelOpen(st, t.node, t.recipient)]
      ELSE IF t.kind = "sendMessage"
      THEN CacheAndForward(RemoveTask(st, i), t.node, t.sender, t.recipient,
                           t.id, TRUE)
      ELSE StartForward(RemoveTask(st, i), t.node, t.sender, t.recipient,
                        t.id, TRUE)

\* a sendMessage that adds the id of a delivered message to
\* forwardedMessagesIds, as sendSignalingMessage does
SendReturned_marksDelivered(st, i) ==
  LET t == st.tasks[i]
  IN  IF t.ok
      THEN RemoveTask([st EXCEPT !.forwarded[t.node] = @ \cup {t.id}], i)
      ELSE StartForward(RemoveTask(st, i), t.node, t.sender, t.recipient,
                        t.id, TRUE)

\* sendSignalingMessage or sendMessage resumes with the result of
\* rpc.sendMessage: sendSignalingMessage adds the id of a message it has
\* sent to forwardedMessagesIds, sendMessage logs the delivery
SendReturned(st, i) ==
  LET t == st.tasks[i]
  IN  IF t.kind = "sendMessage"
      THEN IF t.ok THEN RemoveTask(st, i)
           ELSE CacheAndForward(RemoveTask(st, i), t.node, t.sender,
                                t.recipient, t.id, TRUE)
      ELSE IF t.ok
      THEN RemoveTask([st EXCEPT !.forwarded[t.node] = @ \cup {t.id}], i)
      ELSE StartForward(RemoveTask(st, i), t.node, t.sender, t.recipient,
                        t.id, TRUE)

\* a cleanup that lets the ids inserted last go
CleanupReceived_dropNewest(ids) ==
  IF Len(ids) > MAX_RECEIVED_IDS THEN SubSeq(ids, 1, MAX_RECEIVED_IDS)
  ELSE ids

\* cleanupReceivedSignalingMessageIds: the ids beyond MAX_RECEIVED_IDS go,
\* the first inserted first
CleanupReceived(ids) ==
  IF Len(ids) > MAX_RECEIVED_IDS
  THEN SubSeq(ids, Len(ids) - MAX_RECEIVED_IDS + 1, Len(ids))
  ELSE ids

\* a test that finds no id
SeenSignaling_never(received, id) == FALSE

\* this.receivedSignalingMessageIds.has(signalingMessage.id)
SeenSignaling(received, id) == id \in Range(received)

\* receivedSignalingMessageIds.add(id) and the cleanup beyond the bound
AddReceived(received, id) ==
  IF Len(received) + 1 > MAX_RECEIVED_IDS
  THEN CleanupReceived(Append(received, id))
  ELSE Append(received, id)

\* the branch of handleMessage for the type 'message': a frame's sender is
\* message.senderId, as it is in every frame sendMessage and forward make
HandleUserMessage(st, n, frame, from) ==
  IF frame.id = NoId THEN st
  ELSE LET st1 == AddNodeNet(st, n, from)
       IN  IF frame.recipient = nodeId[n]
           THEN [st1 EXCEPT !.log[n].chat[frame.id] = Bump(@)]
           ELSE StartSendMessage(st1, n, frame.recipient, frame.id,
                                 frame.sender)

\* DHT.handleMessage(rpcMessage, from); a pong is of an unexpected type
\* and is dropped
HandleMessage(st, n, frame, from) ==
  IF frame.type = "message" THEN HandleUserMessage(st, n, frame, from)
  ELSE IF frame.type # "signaling" \/ frame.id = NoId THEN st
  ELSE IF SeenSignaling(st.received[n], frame.id) THEN st
  ELSE LET st1 == [st EXCEPT !.received[n] = AddReceived(@, frame.id),
                             !.log[n].dispatched[frame.id] = Bump(@)]
           st2 == AddNodeNet(st1, n, from)
       IN  IF frame.recipient = nodeId[n]
           THEN [st2 EXCEPT !.log[n].emitted[frame.id] = Bump(@)]
           ELSE StartSendSignaling(st2, n, frame.recipient, frame.id,
                                   frame.sender)

\* a test that does not look at the peer the pong came from
PongListeners_anyPeer(st, n, frame, from) ==
  {i \in 1..Len(st.tasks) :
     /\ st.tasks[i].node = n
     /\ st.tasks[i].pc = "ping"
     /\ st.tasks[i].ping = frame.id}

\* the pending ping of node n a pong answers: onPong's test
PongListeners(st, n, frame, from) ==
  {i \in 1..Len(st.tasks) :
     /\ st.tasks[i].node = n
     /\ st.tasks[i].pc = "ping"
     /\ st.tasks[i].ping = frame.id
     /\ st.tasks[i].recipient = from}

\* the pending ping of a pass of node n a pong answers
PassListeners(st, n, frame, from) ==
  {s \in DOMAIN st.cache[n].passes :
     /\ st.cache[n].passes[s].pc = "ping"
     /\ st.cache[n].passes[s].ping = frame.id
     /\ st.cache[n].passes[s].cur.recipient = from}

\* WebRTCRPC.handleMessage(event, node): a ping is answered on an open
\* channel and emits "ping" (addNode); a pong and a signaling frame are
\* emitted as "message", to DHT.handleMessage and to the pending pings
RpcHandleMessage(st, n, frame, from) ==
  IF frame.type = "ping"
  THEN AddNodeNet(
         IF ChannelOpen(st, n, from)
         THEN ChannelSend(st, n, from,
                          [type |-> "pong", sender |-> nodeId[n],
                           recipient |-> from, id |-> frame.id])
         ELSE st,
         n, from)
  ELSE LET st1 == HandleMessage(st, n, frame, from)
           waiting == PongListeners(st1, n, frame, from)
           passes == PassListeners(st1, n, frame, from)
       IN  IF frame.type = "pong" /\ frame.id # 0 /\ waiting # {}
           THEN PingReturned(st1, CHOOSE i \in waiting : TRUE, TRUE)
           ELSE IF frame.type = "pong" /\ frame.id # 0 /\ passes # {}
           THEN PassPonged(st1, n, CHOOSE s \in passes : TRUE)
           ELSE st1

\* the state after a handler and the record of the handler; the handler
\* runs once and st is the state it leaves, and cm is the ConnectionManager
\* with its Maps as the handler leaves them
CommitWith(after, act, cm) ==
  \E st \in {after} :
    /\ buckets' = st.buckets
    /\ cache' = st.cache
    /\ dataChannels' = st.dataChannels
    /\ wire' = st.wire
    /\ forwardedMessagesIds' = st.forwarded
    /\ receivedSignalingMessageIds' = st.received
    /\ tasks' = st.tasks
    /\ timers' = st.timers
    /\ replacedChannels' = st.replaced
    /\ log' = st.log
    /\ step' = [act EXCEPT !.sent = st.sent]
    /\ connectionManager' = cm
    /\ UNCHANGED <<nodeId, kbOp, cacheKind, clock, visualizationServer>>

\* a handler of the DHT: it leaves the peer's Maps alone
Commit(after, act) == CommitWith(after, act, connectionManager)

Did(act, n, id) == [NoStep EXCEPT !.act = act, !.node = n, !.id = id]

----------------------------------------------------------------------------
(* The handlers as actions *)

\* a frame arrives on the channel from the peer of id from:
\* dataChannel.onmessage -> rpc.handleMessage -> the listeners of "message"
Handle(st, n, frame, from) ==
  LET signaling == frame.type = "signaling" /\ frame.id # NoId
      seen == signaling /\ SeenSignaling(receivedSignalingMessageIds[n],
                                         frame.id)
  IN  /\ (signaling \/ frame.type = "message") => Len(tasks) < MaxTasks
      /\ \/ frame.type = "pong"
         \/ from \in Contacts(buckets[n])
         \/ IdleSlots(cache[n]) # {}
      /\ Commit(RpcHandleMessage(st, n, frame, from),
                [NoStep EXCEPT
                   !.act = "handleMessage", !.node = n,
                   !.id = IF signaling THEN frame.id ELSE NoId,
                   !.frame = frame, !.from = from,
                   !.dropped = seen,
                   !.pruned = /\ signaling
                              /\ ~seen
                              /\ Len(receivedSignalingMessageIds[n]) + 1
                                   > MAX_RECEIVED_IDS])

\* dht.sendSignalingMessage(recipient, signalingMessage) called by the
\* application: sender is null, the node is the origin
SendSignalingMessage(n, recipient, id) ==
  /\ Len(tasks) < MaxTasks
  /\ Commit(StartSendSignaling(
              [State EXCEPT !.log[n].dispatched[id] = Bump(@)],
              n, recipient, id, nodeId[n]),
            Did("sendSignalingMessage", n, id))

\* dht.sendMessage(recipient, message) called by the application, with
\* message.senderId the id of the node
SendMessage(n, recipient, id) ==
  /\ Len(tasks) < MaxTasks
  /\ Commit(StartSendMessage(State, n, recipient, id, nodeId[n]),
            Did("sendMessage", n, id))

\* rpc.ping resolves false: its timer fires, or it returned false at once
PingFalse(i) ==
  /\ i \in 1..Len(tasks)
  /\ tasks[i].pc = "ping"
  /\ Commit(PingReturned(State, i, FALSE),
            Did("pingFalse", tasks[i].node, tasks[i].id))

\* a call suspended in await rpc.sendMessage(...) resumes
SendAwaited(i) ==
  /\ i \in 1..Len(tasks)
  /\ tasks[i].pc = "send"
  /\ Commit(IF tasks[i].kind = "forward" THEN ForwardResumed(State, i)
            ELSE SendReturned(State, i),
            Did("sendAwaited", tasks[i].node, tasks[i].id))

\* setupDataChannel(targetPeerId, dataChannel) and the channel's onopen:
\* "listening" -> addNode(node); tryToDeliverCachedMessagesToTarget()
Listening(n, p) ==
  /\ p \notin OpenChannels(dataChannels[n])
  /\ p \in Contacts(buckets[n]) \/ IdleSlots(cache[n]) # {}
  /\ LET st1 == AddNodeNet([State EXCEPT !.dataChannels[n] =
                                          MapPut(@, p, "open")],
                           n, p)
     IN  /\ IdleSlots(st1.cache[n]) # {}
         /\ Commit(TryToDeliver(st1, n),
                   [Did("listening", n, NoId) EXCEPT !.peer = p])

\* findAndPingNode returns null to the pass s: at once, or when the timer
\* of its ping fires
PassPingFalse(n, s) ==
  /\ cache[n].passes[s].pc = "ping"
  /\ Commit(PassPingNull(State, n, s),
            Did("passPingFalse", n, cache[n].passes[s].cur.id))

\* the pass s resumes after await sendMessage
PassSendAwaited(n, s) ==
  /\ cache[n].passes[s].pc = "send"
  /\ Commit(PassSendReturned(State, n, s),
            Did("passSendAwaited", n, cache[n].passes[s].cur.id))

\* the pings of node n to the peers that wait for their pong: the promises
\* of rpc.ping that no pong and no timer has resolved yet
OutstandingPings(st, n, peers) ==
  {st.tasks[i].ping : i \in {j \in 1..Len(st.tasks) :
                               /\ st.tasks[j].node = n
                               /\ st.tasks[j].pc = "ping"
                               /\ st.tasks[j].ping # 0
                               /\ st.tasks[j].recipient \in peers}}

\* the channels of node n to the peers close: nothing in onclose or in
\* rpc.close() resolves a ping, and the log notes the pings that were
\* outstanding on the channels
NoteClosed(st, n, peers) ==
  [st EXCEPT !.log[n].closedPings = @ \cup OutstandingPings(st, n, peers)]

\* the channel's onclose: this.dataChannels.delete(node.id)
ChannelClosed(n, p) ==
  /\ p \in DOMAIN dataChannels[n]
  /\ Commit([NoteClosed(State, n, {p})
                EXCEPT !.dataChannels[n] = MapRemove(@, p)],
            [Did("channelClosed", n, NoId) EXCEPT !.peer = p])

\* the timer of startReceivedIdsCleanup fires
ReceivedIdsCleanup(n) ==
  /\ "receivedIdsCleanup" \in timers[n]
  /\ Commit([State EXCEPT !.received[n] = CleanupReceived(@)],
            Did("cleanup", n, NoId))

\* stopTTLCleanup(): clearInterval(this.ttlCleanupInterval)
StopTTLCleanup(st, n) == [st EXCEPT !.timers[n] = @ \ {"ttlCleanup"}]

\* DHT.close(): stopTTLCleanup, rpc.close(),
\* receivedSignalingMessageIds.clear(), cacheStrategy.clear()
Close(n) ==
  Commit([StopTTLCleanup(NoteClosed(State, n, DOMAIN dataChannels[n]), n)
                 EXCEPT !.dataChannels[n] = NoChannels,
                       !.received[n] = <<>>,
                       !.cache[n] = CacheClear(@)],
         Did("close", n, NoId))

----------------------------------------------------------------------------
(* One node among peers that are not modelled: channels to the peers open,
   the application calls sendSignalingMessage, the peers send the node
   signaling frames, pings and pongs, and the cleanup timer fires *)

PeerIds == {1, 2}

\* The signaling messages of the model: message i has one origin and one
\* recipient.  The odd messages go to an id the node never has a channel to
\* (f0..00), the even ones to the peer 50..00; those the node does not
\* originate come from the peer a0..00.
SignalingRecipientOf(i) == IF i % 2 = 1 THEN 3 ELSE 1
SignalingSenderOf(i) == 2

InitNode ==
  /\ nodeId = [n \in {1} |-> 0]
  /\ buckets = [n \in {1} |-> EmptyTable]
  /\ kbOp = NoOp
  /\ cache = [n \in {1} |-> EmptyCache(MaxPasses)]
  /\ cacheKind = [n \in {1} |-> "distance"]
  /\ clock = 0
  /\ InitNet({1})

\* the pings of node n that wait for a pong of the peer p
PendingPings(n, p) ==
  {tasks[i].ping : i \in {j \in 1..Len(tasks) :
                            /\ tasks[j].node = n
                            /\ tasks[j].pc = "ping"
                            /\ tasks[j].recipient = p
                            /\ tasks[j].ping # 0}}

\* what the peer p may send: a signaling frame, a ping, the pong of a
\* pending ping
PeerFrames(n, p) ==
  {[type |-> "signaling", sender |-> SignalingSenderOf(id),
    recipient |-> SignalingRecipientOf(id), id |-> id] : id \in 1..MaxMsgs}
  \cup {[type |-> "ping", sender |-> p, recipient |-> nodeId[n], id |-> 1]}
  \cup {[type |-> "pong", sender |-> p, recipient |-> nodeId[n], id |-> i] :
          i \in PendingPings(n, p)}

Deliver(n, p, frame) ==
  /\ p \in OpenChannels(dataChannels[n])
  /\ Handle(State, n, frame, p)

NextNode ==
  \/ \E n \in Nodes, p \in PeerIds : Listening(n, p)
  \/ \E n \in Nodes, id \in 1..MaxMsgs :
       /\ SignalingRecipientOf(id) # nodeId[n]
       /\ SendSignalingMessage(n, SignalingRecipientOf(id), id)
  \/ \E n \in Nodes, p \in PeerIds :
       \E frame \in PeerFrames(n, p) : Deliver(n, p, frame)
  \/ \E i \in 1..MaxTasks : PingFalse(i)
  \/ \E i \in 1..MaxTasks : SendAwaited(i)
  \/ \E n \in Nodes : ReceivedIdsCleanup(n)

SpecNode == InitNode /\ [][NextNode]_vars

\* C2: of the forward calls a node makes for one message id only the first
\* sends frames: a call that begins after another call for the same id has
\* begun, whether that one is over or suspended in a send, emits no event
\* and sends no frame
C2_DedupIdempotence ==
  \A n \in Nodes : log[n].lateEvents = 0 /\ log[n].lateSent = 0

\* C8: in the state a run of the periodic cleanup leaves, forwardedMessagesIds
\* holds at most MAX_RECEIVED_IDS ids
C8_ForwardedBounded ==
  \A n \in Nodes :
    step.act = "cleanup" /\ step.node = n
      => Cardinality(forwardedMessagesIds[n]) <= MAX_RECEIVED_IDS

----------------------------------------------------------------------------
(* The receiving side of one node: channels to the peers open and close,
   the peers send signaling frames, the odd messages for the node itself
   and the even ones for an id next to the node's (00..01), which no peer
   is closer to than the node, and frames without a message id; the cleanup
   timer fires and the node is closed *)

InboxFrames(n, p) ==
  {[type |-> "signaling", sender |-> SignalingSenderOf(id),
    recipient |-> IF id % 2 = 1 THEN nodeId[n] ELSE 4, id |-> id] :
     id \in 0..MaxMsgs}
  \cup {[type |-> "ping", sender |-> p, recipient |-> nodeId[n], id |-> 1]}
  \cup {[type |-> "pong", sender |-> p, recipient |-> nodeId[n], id |-> 1]}

NextInbox ==
  \/ \E n \in Nodes, p \in PeerIds : Listening(n, p)
  \/ \E n \in Nodes, p \in PeerIds : ChannelClosed(n, p)
  \/ \E n \in Nodes, p \in PeerIds :
       \E frame \in InboxFrames(n, p) : Deliver(n, p, frame)
  \/ \E n \in Nodes : ReceivedIdsCleanup(n)
  \/ \E n \in Nodes : Close(n)

SpecInbox == InitNode /\ [][NextInbox]_vars

\* C9: receivedSignalingMessageIds never holds more than MAX_RECEIVED_IDS
\* ids after a handler, and handleMessage leaves, of the ids it held and
\* the id of the frame inserted after them, the newest ones in their order:
\* the id of the frame is kept and ids go only from the old end, and only
\* as many as bring the size back to the bound
C9_ReceivedBounded ==
  [][\A n \in Nodes :
       LET before == receivedSignalingMessageIds[n]
           after == receivedSignalingMessageIds'[n]
       IN  /\ Len(after) <= MAX_RECEIVED_IDS
           /\ ( /\ step'.act = "handleMessage"
                /\ step'.node = n
                /\ step'.id # NoId
                /\ ~step'.dropped )
              => LET inserted == Append(before, step'.id)
                     cut == Len(inserted) - Len(after)
                 IN  /\ cut >= 0
                     /\ cut > 0 => Len(after) = MAX_RECEIVED_IDS
                     /\ \A i \in 1..Len(after) : after[i] = inserted[i + cut]
                     /\ after # <<>> /\ after[Len(after)] = step'.id
    ]_vars

\* handleMessage has pruned: the set is at its bound and the id of the frame
\* is its newest
C9_Witness ==
  /\ step.act = "handleMessage"
  /\ step.pruned
  /\ LET ids == receivedSignalingMessageIds[step.node]
     IN  Len(ids) = MAX_RECEIVED_IDS /\ ids[Len(ids)] = step.id

----------------------------------------------------------------------------
(* Three nodes, each with an open channel to the two others and with the
   two others in its table.  One of them sends one signaling message to
   another; frames travel on the channels in order, a ping is answered or
   times out *)

MeshNodes == {1, 2, 3}

\* the table of a node that addNode was called on for each of ids in turn
RECURSIVE AddAll(_, _, _)
AddAll(tbl, localId, ids) ==
  IF ids = {} THEN tbl
  ELSE LET id == CHOOSE i \in ids : \A j \in ids : i <= j
       IN  AddAll(AddNodeTable(tbl, localId, id), localId, ids \ {id})

InitMesh ==
  /\ nodeId = [n \in MeshNodes |-> n - 1]
  /\ buckets = [n \in MeshNodes |->
                  AddAll(EmptyTable, n - 1, {m - 1 : m \in MeshNodes \ {n}})]
  /\ kbOp = NoOp
  /\ cache = [n \in MeshNodes |-> EmptyCache(MaxPasses)]
  /\ cacheKind = [n \in MeshNodes |-> "distance"]
  /\ clock = 0
  /\ dataChannels = [n \in MeshNodes |->
                       OpenTo({m - 1 : m \in MeshNodes \ {n}})]
  /\ wire = [p \in {q \in MeshNodes \X MeshNodes : q[1] # q[2]} |-> <<>>]
  /\ forwardedMessagesIds = [n \in MeshNodes |-> {}]
  /\ receivedSignalingMessageIds = [n \in MeshNodes |-> <<>>]
  /\ tasks = <<>>
  /\ timers = [n \in MeshNodes |-> StartedTimers]
  /\ replacedChannels = [n \in MeshNodes |-> {}]
  /\ connectionManager = NewConnectionManager
  /\ visualizationServer = NewVisualizationServer
  /\ log = [n \in MeshNodes |-> NoLog]
  /\ step = NoStep

\* the first frame on the channel from node m reaches node n
Receive(n, m) ==
  /\ <<m, n>> \in DOMAIN wire
  /\ wire[<<m, n>>] # <<>>
  /\ Handle([State EXCEPT !.wire[<<m, n>>] = Tail(@)], n,
            Head(wire[<<m, n>>]), nodeId[m])

NextMesh ==
  \/ \E n \in Nodes, r \in Nodes :
       /\ n # r
       /\ step.act = "init"
       /\ SendSignalingMessage(n, nodeId[r], 1)
  \/ \E n \in Nodes, m \in Nodes : Receive(n, m)
  \/ \E i \in 1..MaxTasks : PingFalse(i)
  \/ \E i \in 1..MaxTasks : SendAwaited(i)

SpecMesh == InitMesh /\ [][NextMesh]_vars

\* C10: in the mesh of three nodes every node emits signalingMessage for the
\* message at most once and dispatches it (emits it or hands it to
\* sendSignalingMessage) at most once, and the handler of a further copy
\* sends no frame, starts no call and changes nothing the node holds
C10_LoopSuppression ==
  [][ /\ \A n \in Nodes : \A id \in 1..MaxMsgs :
           log'[n].emitted[id] <= 1 /\ log'[n].dispatched[id] <= 1
      /\ step'.act = "handleMessage" /\ step'.dropped
           => /\ \A p \in DOMAIN wire :
                   p[1] = step'.node => wire'[p] = wire[p]
              /\ UNCHANGED <<tasks, log, forwardedMessagesIds,
                             receivedSignalingMessageIds, buckets, cache>>
    ]_vars

\* a node that has emitted the message drops a further copy of it, after
\* another node, which dispatched the message once, began to forward it
C10_Witness ==
  /\ step.act = "handleMessage"
  /\ step.dropped
  /\ log[step.node].emitted[step.id] = 1
  /\ \E n \in Nodes \ {step.node} :
       step.id \in log[n].started /\ log[n].dispatched[step.id] = 1

----------------------------------------------------------------------------
(* rpc.ping as sendSignalingMessage calls it: one node, channels to two
   peers that open one after the other, a signaling message for either
   peer, and peers that send pongs of any id, asked for or not.  The timer
   of a ping fires at last, and so does the return of rpc.ping on a channel
   that is not open *)

PongFrames(n, p) ==
  {[type |-> "pong", sender |-> p, recipient |-> nodeId[n], id |-> i] :
     i \in 1..MaxTasks}

NextPing ==
  \/ \E n \in Nodes, p \in PeerIds : Listening(n, p)
  \/ \E n \in Nodes, p \in PeerIds : SendSignalingMessage(n, p, 1)
  \/ \E n \in Nodes, p \in PeerIds :
       \E frame \in PongFrames(n, p) : Deliver(n, p, frame)
  \/ \E i \in 1..MaxTasks : PingFalse(i)
  \/ \E i \in 1..MaxTasks : SendAwaited(i)

\* a call waits in await rpc.ping at position i: PingFalse(i) is enabled
PingWaits(i) == i \in 1..Len(tasks) /\ tasks[i].pc = "ping"

\* Weak fairness of PingFalse(i), that is WF_vars(PingFalse(i)) with
\* ENABLED <<PingFalse(i)>>_vars written as the guard of the action: the
\* timer of rpc.ping is set when the ping is sent and is never cleared
SpecPing ==
  /\ InitNode
  /\ [][NextPing]_vars
  /\ \A i \in 1..MaxTasks :
       []<>(~PingWaits(i)) \/ []<><<PingFalse(i)>>_vars

\* the call i, suspended in await rpc.ping, resumes with true in this step
PingResolvedTrue(i) ==
  /\ tasks[i].pc = "ping"
  /\ i <= Len(tasks')
  /\ Len(tasks') = Len(tasks)
  /\ \A j \in 1..Len(tasks) : j # i => tasks'[j] = tasks[j]
  /\ tasks'[i] = [tasks[i] EXCEPT !.pc = "send", !.ping = 0,
                                  !.ok = tasks'[i].ok]

\* a ping with the id k waits for its pong
PingPending(k) ==
  \E i \in 1..Len(tasks) : tasks[i].pc = "ping" /\ tasks[i].ping = k

----------------------------------------------------------------------------
(* The cache strategy once more: persistence, expiry, eviction, admission *)

\* getCachedMessages(): new Map(this.cachedMessages), the entries in the
\* Map's insertion order; saveState writes it as an array and loadState
\* hands new Map(array) to addCachedMessages
GetCachedMessages(c) == c.cachedMessages

\* C12: for the deterministic variant addCachedMessages of the cache's own
\* getCachedMessages() changes nothing, and loading getCachedMessages() into
\* an empty cache gives the same entries and the same accessOrder, whatever
\* the delivery attempts have done to the source cache
C12_CacheRoundTrip ==
  \A n \in Nodes :
    cacheKind[n] = "distance"
      => LET snap == GetCachedMessages(cache[n])
             loaded == AddCachedMessages(EmptyCache(MaxPasses), cacheKind[n],
                                         snap)
         IN  /\ AddCachedMessages(cache[n], cacheKind[n], snap) = cache[n]
             /\ loaded.cachedMessages = cache[n].cachedMessages
             /\ loaded.accessOrder = cache[n].accessOrder

\* The delivery of cached messages alone: messages are cached, one pass
\* over the cache at a time runs and waits for findAndPingNode and
\* sendMessage, time passes
InitExpiry ==
  /\ nodeId = [n \in {1} |-> 0]
  /\ buckets = [n \in {1} |-> EmptyTable]
  /\ kbOp = NoOp
  /\ cache = [n \in {1} |-> EmptyCache(1)]
  /\ cacheKind \in [{1} -> {"distance", "distance_probabilistic"}]
  /\ clock = 0
  /\ InitNet({1})

NextExpiry ==
  \/ \E n \in Nodes, i \in 1..MaxMsgs :
       /\ TsOf(i) <= clock
       /\ CacheMsg(n, Message(i), RecipientOf(i), TRUE, FALSE)
  \/ \E n \in Nodes : TryDeliver(n, 1)
  \/ \E n \in Nodes, t \in BOOLEAN : PassPing(n, 1, t)
  \/ \E n \in Nodes, ok \in BOOLEAN : PassSend(n, 1, ok)
  \/ Tick

SpecExpiry == InitExpiry /\ [][NextExpiry]_vars

\* the pass in slot s of node n comes to await findAndPingNode for the next
\* entry in this step
PassReached(n, s) ==
  /\ cache'[n].passes[s].pc = "ping"
  /\ cache'[n].passes[s].pos > cache[n].passes[s].pos

\* the pass in slot s of node n comes to its end in this step
PassEnded(n, s) ==
  /\ cache'[n] # cache[n]
  /\ cache'[n].events # <<>>
  /\ cache'[n].events[Len(cache'[n].events)] = "delivered"
  /\ cache'[n].passes[s].pc = "idle"
  /\ \/ cache[n].passes[s].pc # "idle"
     \/ \A t \in DOMAIN cache[n].passes :
          cache[n].passes[t].pc = "idle" \/ cache'[n].passes[t].pc # "idle"

\* the entries the pass in slot s goes by without a delivery attempt when
\* it moves on to position last
PassedOver(n, s, last) ==
  {cache[n].cachedMessages[i] : i \in (cache[n].passes[s].pos + 1)..last}

\* C13: a pass takes now when it starts; it attempts delivery only for
\* entries with now - timestamp <= MAX_TTL, goes by an entry without an
\* attempt only if now - timestamp > MAX_TTL, and every entry it has gone
\* by is removed at its end; an entry it removes is one it went by or one it
\* has sent.  So an entry of the age MAX_TTL is attempted and kept
C13_TTLBoundary ==
  [][ \A n \in Nodes : \A s \in DOMAIN cache[n].passes :
        LET p == cache[n].passes[s]
            q == cache'[n].passes[s]
            now == IF p.pc = "idle" THEN clock ELSE p.now
        IN  /\ PassReached(n, s)
                 => /\ q.now = now
                    /\ q.cur = cache[n].cachedMessages[q.pos]
                    /\ now - q.cur.ts <= MAX_TTL
                    /\ \A e \in PassedOver(n, s, q.pos - 1) :
                         now - e.ts > MAX_TTL /\ e.id \in q.toRemove
            /\ PassEnded(n, s)
                 => /\ \A e \in PassedOver(n, s, Len(cache[n].cachedMessages)) :
                         /\ now - e.ts > MAX_TTL
                         /\ e.id \notin CachedIds(cache'[n])
                    /\ \A e \in Range(cache[n].cachedMessages) :
                         e.id \notin CachedIds(cache'[n])
                           => \/ now - e.ts > MAX_TTL
                              \/ e.id \in p.toRemove
                              \/ p.pc = "send" /\ e.id = p.cur.id
    ]_vars

\* a pass has gone by an entry older than MAX_TTL and waits for the ping of
\* the recipient of an entry of just the age MAX_TTL
C13_Witness ==
  \E n \in Nodes : \E s \in DOMAIN cache[n].passes :
    LET p == cache[n].passes[s]
    IN  /\ p.pc = "ping"
        /\ p.now - p.cur.ts = MAX_TTL
        /\ \E e \in Range(cache[n].cachedMessages) :
             e.id \in p.toRemove /\ p.now - e.ts > MAX_TTL

\* C18: in both variants a pass of tryToDeliverCachedMessages that ends
\* with an empty Map has emitted emptyCache (the events of a cache are
\* those of its last call, so a pass has just ended where the last event
\* is delivered)
C18_CacheExpiryEvent ==
  \A n \in Nodes :
    ( /\ cache[n].events # <<>>
      /\ cache[n].events[Len(cache[n].events)] = "delivered"
      /\ cache[n].cachedMessages = <<>> )
      => \E i \in 1..Len(cache[n].events) : cache[n].events[i] = "emptyCache"

\* cacheMessage has admitted a message at node n in this step
Admitted(n) ==
  /\ cache'[n] # cache[n]
  /\ cache'[n].events = <<"messageCached">>

\* a new deterministic cache after cacheMessage of the messages 1 .. k, one
\* after the other, at the node of id 0 with the recipients in its buckets
RECURSIVE CachedInOrder(_)
CachedInOrder(k) ==
  IF k = 0 THEN EmptyCache(1)
  ELSE CacheMessage(CachedInOrder(k - 1), "distance", MaxSize,
                    DistanceThreshold, 0, RecipientOf(k), Message(k), 0,
                    TRUE, FALSE)

\* C19: a cacheMessage that admits a message while the Map holds maxSize
\* entries removes exactly the entry of the id at the head of accessOrder
\* from the Map, removes that id from accessOrder and appends the new id;
\* and the messages 1 .. maxSize + 1 cached in that order into a new cache
\* leave accessOrder = <<2, .., maxSize + 1>>
C19_LRUEviction ==
  /\ CachedInOrder(MaxSize + 1).accessOrder = [i \in 1..MaxSize |-> i + 1]
  /\ [][ \A n \in Nodes :
           ( Admitted(n) /\ Len(cache[n].cachedMessages) = MaxSize )
             => LET c == cache[n]
                    d == cache'[n]
                    new == d.cachedMessages[Len(d.cachedMessages)].id
                IN  /\ new \notin CachedIds(c)
                    /\ Head(c.accessOrder) \in CachedIds(c)
                    /\ CachedIds(d) =
                         (CachedIds(c) \ {Head(c.accessOrder)}) \cup {new}
                    /\ d.accessOrder = Append(Tail(c.accessOrder), new)
       ]_vars

\* cacheMessage alone, with recipients in the buckets and not, in both
\* variants, a cache file loaded and the cache cleared now and then
NextAdmit ==
  \/ \E n \in Nodes, i \in 0..MaxMsgs, found \in BOOLEAN, skip \in BOOLEAN :
       /\ TsOf(i) <= clock
       /\ CacheMsg(n, Message(i), RecipientOf(i), found, skip)
  \/ \E n \in Nodes, l \in Loads : BulkLoad(n, l)
  \/ \E n \in Nodes : Clear(n)
  \/ Tick

SpecAdmit == InitExpiry /\ [][NextAdmit]_vars

\* the number a string of hex digits writes (parseInt(h, 16))
RECURSIVE HexValue(_)
HexValue(h) ==
  IF h = <<>> THEN 0
  ELSE 16 * HexValue(SubSeq(h, 1, Len(h) - 1)) + h[Len(h)]

\* the 48 most significant bits of a distance as an unsigned integer, in
\* two halves of 24 bits
Top48(distanceHex) ==
  <<HexValue(SubSeq(distanceHex, 1, 6)), HexValue(SubSeq(distanceHex, 7, 12))>>

\* halves <= Math.pow(2, 45)
WithinThreshold(halves) ==
  \/ halves[1] < 2 ^ 21
  \/ halves[1] = 2 ^ 21 /\ halves[2] = 0

\* recipients whose distances to the id 00..00 lie below, at and above
\* 2^45 in their first 48 bits, with bits set and not set behind the 48th
AdmissionIds ==
  {[i \in 1..HexLen |->
      IF i = 1 THEN a ELSE IF i = 12 THEN b ELSE IF i = 13 THEN c ELSE 0] :
     a \in 0..3, b \in 0..1, c \in {0, 15}}

\* the test of cacheMessage, distance > this.distanceThreshold, at the node
\* of the id self is the comparison of the numbers, for the recipients above
ThresholdTest(self) ==
  /\ Top48(DistanceThreshold) = <<2 ^ 21, 0>>
  /\ \A recipient \in AdmissionIds :
       LET distanceHex == xorDistance(self, recipient)
       IN  HexGreater(distanceHexShort(distanceHex), DistanceThreshold)
             <=> ~WithinThreshold(Top48(distanceHex))

\* C20: in the deterministic variant a message that has an id the cache
\* does not hold, and whose recipient is not in the buckets, is admitted if
\* and only if the 48 most significant bits of xor(self, recipient) are
\* <= the threshold; with the recipient in the buckets it is admitted at
\* any distance; a message that is not admitted leaves the Map and
\* accessOrder as they were and no messageCached is emitted
C20_DistanceAdmission ==
  /\ \A n \in Nodes : ThresholdTest(Hex(nodeId[n]))
  /\ \A n \in Nodes : \A i \in 1..MaxMsgs : \A found \in BOOLEAN :
       ( cacheKind[n] = "distance" /\ i \notin CachedIds(cache[n]) )
         => LET c == cache[n]
                d == CacheMessage(c, cacheKind[n], MaxSize, DistanceThreshold,
                                  nodeId[n], RecipientOf(i), Message(i),
                                  nodeId[n], found, FALSE)
                near == WithinThreshold(
                          Top48(xorDistance(Hex(nodeId[n]),
                                            Hex(RecipientOf(i)))))
            IN  IF found \/ near
                THEN /\ i \in CachedIds(d)
                     /\ d.events = <<"messageCached">>
                ELSE /\ d.cachedMessages = c.cachedMessages
                     /\ d.accessOrder = c.accessOrder
                     /\ d.events = <<>>

\* the deterministic cache holds a message for a recipient farther than the
\* threshold, admitted with the recipient in the buckets, and one for a
\* near recipient
C20_Witness ==
  \E n \in Nodes :
    /\ cacheKind[n] = "distance"
    /\ \E e \in Range(cache[n].cachedMessages) :
         HexGreater(CacheDistance(nodeId[n], e.recipient), DistanceThreshold)
    /\ \E e \in Range(cache[n].cachedMessages) :
         ~HexGreater(CacheDistance(nodeId[n], e.recipient), DistanceThreshold)

----------------------------------------------------------------------------
(* User messages between meshed nodes: one node sends one user message
   with sendMessage to a node of its table, the frames travel, the pinged
   node answers.  The ping is answered before its timer fires, so the
   timer is not part of this specification. *)

\* the user messages that are sent: one without and one with content
UserMessageIds == {1, MaxMsgs + 1}

\* the meshed nodes, all with the one or the other cache variant
InitDirect ==
  /\ nodeId = [n \in MeshNodes |-> n - 1]
  /\ buckets = [n \in MeshNodes |->
                  AddAll(EmptyTable, n - 1, {m - 1 : m \in MeshNodes \ {n}})]
  /\ kbOp = NoOp
  /\ cache = [n \in MeshNodes |-> EmptyCache(MaxPasses)]
  /\ \E kind \in {"distance", "distance_probabilistic"} :
       cacheKind = [n \in MeshNodes |-> kind]
  /\ clock = 0
  /\ dataChannels = [n \in MeshNodes |->
                       OpenTo({m - 1 : m \in MeshNodes \ {n}})]
  /\ wire = [p \in {q \in MeshNodes \X MeshNodes : q[1] # q[2]} |-> <<>>]
  /\ forwardedMessagesIds = [n \in MeshNodes |-> {}]
  /\ receivedSignalingMessageIds = [n \in MeshNodes |-> <<>>]
  /\ tasks = <<>>
  /\ timers = [n \in MeshNodes |-> StartedTimers]
  /\ replacedChannels = [n \in MeshNodes |-> {}]
  /\ connectionManager = NewConnectionManager
  /\ visualizationServer = NewVisualizationServer
  /\ log = [n \in MeshNodes |-> NoLog]
  /\ step = NoStep

NextDirect ==
  \/ \E n \in Nodes, r \in Nodes, id \in UserMessageIds :
       /\ n # r
       /\ step.act = "init"
       /\ SendMessage(n, nodeId[r], id)
  \/ \E n \in Nodes, m \in Nodes : Receive(n, m)
  \/ \E i \in 1..MaxTasks : SendAwaited(i)

SpecDirect == InitDirect /\ [][NextDirect]_vars

\* no call is in progress and no frame is in flight
Quiet == tasks = <<>> /\ \A p \in DOMAIN wire : wire[p] = <<>>

\* the frames of type 'message' in flight from node a to node b
UserFramesOn(a, b) ==
  {i \in 1..Len(wire[<<a, b>>]) : wire[<<a, b>>][i].type = "message"}

\* all that has happened is one direct delivery from node a to node b, in
\* progress or complete: frames only between a and b, frames of type
\* 'message' only from a to b, and a chatMessage only at b
DirectOnly(a, b) ==
  /\ \A p \in DOMAIN wire : wire[p] # <<>> => p \in {<<a, b>>, <<b, a>>}
  /\ UserFramesOn(b, a) = {}
  /\ \A n \in Nodes \ {a} : log[n].userFrames = 0
  /\ \A n \in Nodes \ {b} : \A id \in UserMessageIds : log[n].chat[id] = 0
  /\ log[a].userFrames <= 1
  /\ Cardinality(UserFramesOn(a, b)) <= log[a].userFrames
  /\ \A id \in UserMessageIds : log[b].chat[id] <= log[a].userFrames
  /\ Quiet => \E id \in UserMessageIds :
                /\ log[a].userFrames = 1
                /\ log[b].chat[id] = 1
                /\ \A other \in UserMessageIds \ {id} : log[b].chat[other] = 0

\* C14: sendMessage(B, m1) at A, with B in A's table, the channel open and
\* the ping answered, sends exactly one frame of type 'message', on the
\* channel to B, and no frame on a channel to or from a third node; B emits
\* chatMessage with the message when it handles the frame; every cache and
\* every forwardedMessagesIds stays empty
C14_DirectDelivery ==
  /\ [](step.act # "init" => \E a, b \in Nodes : a # b /\ DirectOnly(a, b))
  /\ [](\A n \in Nodes : /\ cache[n].cachedMessages = <<>>
                         /\ cache[n].accessOrder = <<>>
                         /\ forwardedMessagesIds[n] = {})
  /\ [][ /\ step'.act = "sendMessage"
           => /\ Len(step'.sent) = 1
              /\ step'.sent[1].frame.type = "ping"
              /\ step'.sent[1].to = tasks'[Len(tasks')].recipient
         /\ \A i \in 1..Len(step'.sent) :
              step'.sent[i].frame.type = "message"
                => /\ step'.sent[i].to = step'.sent[i].frame.recipient
                   /\ step'.act = "handleMessage"
                   /\ step'.frame.type = "pong"
                   /\ step'.from = step'.sent[i].frame.recipient
         /\ step'.act = "handleMessage" /\ step'.frame.type = "message"
           => /\ step'.frame.recipient = nodeId[step'.node]
              /\ log'[step'.node].chat[step'.frame.id]
                   = log[step'.node].chat[step'.frame.id] + 1 ]_vars

\* a message with content and a message without have been delivered
\* directly: the one frame has been handled, the recipient has emitted
\* chatMessage, nothing is left in progress
C14_Witness ==
  /\ Quiet
  /\ step.act = "handleMessage" /\ step.frame.type = "message"
  /\ log[step.node].chat[step.frame.id] = 1
  /\ \E a \in Nodes \ {step.node} : log[a].userFrames = 1

----------------------------------------------------------------------------
(* User messages over one hop: the chain A - C - B.  The end nodes 1 and 3
   have the relay 2 as their only contact and their only channel, the
   relay knows the recipient and has a channel to both.  The ids are
   00..00 or 00..01 for node 1, a0..00 for the relay and f0..00 for node 3,
   so the relay is closer to either end than the other end is, and the
   48 most significant bits of the distance between the ends are far above
   the default threshold 2^45.  Every node has the default cache strategy.
   One end sends one user message to the other; pings are answered.  A
   frame on an open channel is handled and a call that awaits a send is
   resumed: the event loop runs every callback that is due. *)

Relay == 2
Ends == {1, 3}
ChainNodes == Ends \cup {Relay}

\* the other end of the chain
Far(n) == CHOOSE m \in Ends : m # n

ChainIds == {ids \in [ChainNodes -> IdUniverse] :
               ids[1] \in {0, 4} /\ ids[Relay] = 2 /\ ids[3] = 3}

InitChain ==
  /\ nodeId \in ChainIds
  /\ \E known \in SUBSET Ends :
       /\ known # {}
       /\ buckets = [n \in ChainNodes |->
                       IF n = Relay
                       THEN AddAll(EmptyTable, nodeId[n],
                                   {nodeId[m] : m \in known})
                       ELSE AddAll(EmptyTable, nodeId[n], {nodeId[Relay]})]
  /\ kbOp = NoOp
  /\ cache = [n \in ChainNodes |-> EmptyCache(MaxPasses)]
  /\ cacheKind = [n \in ChainNodes |-> "distance"]
  /\ clock = 0
  /\ dataChannels = [n \in ChainNodes |->
                       IF n = Relay THEN OpenTo({nodeId[m] : m \in Ends})
                       ELSE OpenTo({nodeId[Relay]})]
  /\ wire = [p \in {q \in ChainNodes \X ChainNodes : q[1] # q[2]} |-> <<>>]
  /\ forwardedMessagesIds = [n \in ChainNodes |-> {}]
  /\ receivedSignalingMessageIds = [n \in ChainNodes |-> <<>>]
  /\ tasks = <<>>
  /\ timers = [n \in ChainNodes |-> StartedTimers]
  /\ replacedChannels = [n \in ChainNodes |-> {}]
  /\ connectionManager = NewConnectionManager
  /\ visualizationServer = NewVisualizationServer
  /\ log = [n \in ChainNodes |-> NoLog]
  /\ step = NoStep

\* an end sends a user message to the other end, which the relay knows
SendOverChain(n, id) ==
  /\ step.act = "init"
  /\ nodeId[Far(n)] \in Contacts(buckets[Relay])
  /\ SendMessage(n, nodeId[Far(n)], id)

NextChain ==
  \/ \E n \in Ends, id \in UserMessageIds : SendOverChain(n, id)
  \/ \E n \in Nodes, m \in Nodes : Receive(n, m)
  \/ \E i \in 1..MaxTasks : SendAwaited(i)

SpecChain ==
  /\ InitChain
  /\ [][NextChain]_vars
  /\ WF_vars(\E n \in Nodes, m \in Nodes : Receive(n, m))
  /\ WF_vars(\E i \in 1..MaxTasks : SendAwaited(i))

\* the frames carrying the message id among the frames a handler sent
SentOf(sent, id) ==
  {i \in 1..Len(sent) :
     sent[i].frame.type \in {"message", "signaling"}
       /\ sent[i].frame.id = id}

\* C15: when A knows the relay but not B, sendMessage(B, m2) at A with the
\* default configuration leaves m2 in A's cache and sends m2 to the relay
C15_OriginCache ==
  [][step'.act = "sendMessage"
       => /\ step'.id \in CachedIds(cache'[step'.node])
          /\ \E i \in SentOf(step'.sent, step'.id) :
               step'.sent[i].to = nodeId[Relay]]_vars

\* C15, as the code has it: sendMessage(B, m2) at A, which knows the relay
\* but not B, leaves A's cache empty (the strategy rejects m2 and emits
\* nothing: B is not in A's table and is further from A than the default
\* threshold) and sends m2 in one frame, to the relay
C15_OriginForwards ==
  [][step'.act = "sendMessage"
       => /\ cache'[step'.node].cachedMessages = <<>>
          /\ cache'[step'.node].accessOrder = <<>>
          /\ cache'[step'.node].events = <<>>
          /\ Len(step'.sent) = 1
          /\ SentOf(step'.sent, step'.id) = {1}
          /\ step'.sent[1].to = nodeId[Relay]
          /\ step'.sent[1].frame.recipient = nodeId[Far(step'.node)]
          /\ step'.sent[1].frame.sender = nodeId[step'.node]]_vars

\* an end that does not know the other end has sent it a message
C15_Witness ==
  /\ step.act = "sendMessage"
  /\ step.node \in Ends
  /\ nodeId[Far(step.node)] \notin Contacts(buckets[step.node])
  /\ step.sent # <<>>
  /\ cache[step.node].cachedMessages = <<>>

\* C16: a user message an end has sent to the other end with sendMessage
\* is in the end emitted by that end as chatMessage
C16_ForwardedDelivery ==
  \A n \in Ends : \A id \in UserMessageIds :
    (id \in log[n].started) ~> (log[Far(n)].chat[id] >= 1)

\* the call of the relay that the step resumes has delivered its message
\* directly: rpc.sendMessage to the recipient returned true
RelayDelivered(i) ==
  /\ i \in 1..Len(tasks)
  /\ tasks[i].node = Relay
  /\ tasks[i].kind \in {"sendMessage", "sendSignalingMessage"}
  /\ tasks[i].pc = "send"
  /\ tasks[i].ok
  /\ tasks' = SubSeq(tasks, 1, i - 1) \o SubSeq(tasks, i + 1, Len(tasks))
  /\ step'.act = "sendAwaited"
  /\ step'.id = tasks[i].id

\* C17: once the relay has delivered the message of an end directly to the
\* other end, the relay's forwardedMessagesIds holds the message's id
C17_RelayBookkeeping ==
  [][\A i \in 1..MaxTasks :
       RelayDelivered(i) => tasks[i].id \in forwardedMessagesIds'[Relay]]_vars

----------------------------------------------------------------------------
(* The rpc alone: one node, data channels to the peers in every readyState,
   and calls of rpc.sendMessage.  dataChannel.send may throw (the channel's
   buffer is full, the frame is too large). *)

\* setupDataChannel(node, dataChannel) for a channel that is not open yet:
\* this.dataChannels.set(node.id, dataChannel)
SetupDataChannel(n, p) ==
  /\ p \notin DOMAIN dataChannels[n]
  /\ Commit([State EXCEPT !.dataChannels[n] = MapPut(@, p, "connecting")],
            [Did("setupDataChannel", n, NoId) EXCEPT !.peer = p])

\* the channel to p begins to close or has closed and its onclose has not
\* run yet: readyState 'closing', then 'closed'
ChannelState(n, p) ==
  /\ p \in DOMAIN dataChannels[n]
  /\ \E next \in {"closing", "closed"} :
       /\ dataChannels[n][p] # "closed"
       /\ dataChannels[n][p] # next
       /\ Commit([State EXCEPT !.dataChannels[n][p] = next],
                 [Did("readyState", n, NoId) EXCEPT !.peer = p])

\* rpc.sendMessage(node, sender, recipient, message, signalingMessage) with
\* a dataChannel.send that throws or not: the state it leaves
RpcSendMessageOrThrow(st, n, to, sender, recipient, id, signaling, throws) ==
  IF ChannelOpen(st, n, to) /\ throws THEN st
  ELSE RpcSendMessage(st, n, to, sender, recipient, id, signaling)

\* how the promise of rpc.sendMessage ends: fulfilled with true or false;
\* the catch around the whole body turns a throw into false
RpcSendOutcome(st, n, to, throws) ==
  IF ~ChannelOpen(st, n, to) THEN "false"
  ELSE IF throws THEN "false"
  ELSE "true"

\* a call of rpc.sendMessage for the peer to
RpcSend(n, to, id, signaling, throws) ==
  Commit(RpcSendMessageOrThrow(State, n, to, nodeId[n], to, id, signaling,
                               throws),
         [Did("rpcSendMessage", n, id) EXCEPT
            !.peer = to, !.threw = throws,
            !.outcome = RpcSendOutcome(State, n, to, throws)])

NextRpc ==
  \/ \E n \in Nodes, p \in PeerIds : SetupDataChannel(n, p)
  \/ \E n \in Nodes, p \in PeerIds : Listening(n, p)
  \/ \E n \in Nodes, p \in PeerIds : ChannelState(n, p)
  \/ \E n \in Nodes, p \in PeerIds : ChannelClosed(n, p)
  \/ \E n \in Nodes, p \in PeerIds \cup {3}, signaling, throws \in BOOLEAN :
       RpcSend(n, p, 1, signaling, throws)

SpecRpc == InitNode /\ [][NextRpc]_vars

\* C21: rpc.sendMessage(node, ...) is fulfilled with true exactly when the
\* Map holds a channel for node.id whose readyState is 'open' (and send did
\* not throw), and then it has handed exactly one frame, to that channel;
\* in every other case (no channel, channel connecting, closing or closed,
\* send threw) it is fulfilled with false and has handed over no frame; it
\* is never rejected, and it leaves the Map as it was
C21_RpcSend ==
  [][step'.act = "rpcSendMessage"
       => LET map == dataChannels[step'.node]
              p == step'.peer
              open == p \in DOMAIN map /\ map[p] = "open"
          IN  /\ step'.outcome \in {"true", "false"}
              /\ step'.outcome = "true" <=> open /\ ~step'.threw
              /\ step'.outcome = "true"
                   => /\ Len(step'.sent) = 1
                      /\ step'.sent[1].to = p
                      /\ step'.sent[1].frame.type \in {"message", "signaling"}
                      /\ step'.sent[1].frame.id = step'.id
              /\ step'.outcome = "false" => step'.sent = <<>>
              /\ UNCHANGED <<dataChannels, wire, tasks, buckets, cache>>]_vars

\* sendMessage has returned true for an open channel while the Map also
\* holds a channel that is not open, and false for a channel that is not
\* open
C21_Witness ==
  /\ step.act = "rpcSendMessage"
  /\ step.outcome = "true"
  /\ \E p \in DOMAIN dataChannels[step.node] :
       dataChannels[step.node][p] \in {"connecting", "closing", "closed"}

----------------------------------------------------------------------------
(* User messages between meshed nodes whose pings may go unanswered: the
   timer of a ping may fire before the pong is handled *)

NextFallback ==
  \/ \E n \in Nodes, r \in Nodes, id \in UserMessageIds :
       /\ n # r
       /\ step.act = "init"
       /\ SendMessage(n, nodeId[r], id)
  \/ \E n \in Nodes, m \in Nodes : Receive(n, m)
  \/ \E i \in 1..MaxTasks : PingFalse(i)
  \/ \E i \in 1..MaxTasks : SendAwaited(i)

SpecFallback == InitDirect /\ [][NextFallback]_vars

\* the ping of the sendMessage call i resolves false and the call goes on
PingFailed(i) ==
  /\ i \in 1..Len(tasks)
  /\ tasks[i].kind = "sendMessage"
  /\ tasks[i].pc = "ping"
  /\ step'.act = "pingFalse"
  /\ step'.node = tasks[i].node
  /\ step'.id = tasks[i].id
  /\ \A j \in 1..(i - 1) : tasks'[j] = tasks[j]
  /\ \A j \in (i + 1)..Len(tasks) : tasks'[j - 1] = tasks[j]

\* the contacts a forward with forceForwardingToKPeers goes to: the k
\* closest to the recipient other than the sender and the node itself
ForcedPeers(n, sender, recipient) ==
  Range(closest(buckets[n], recipient, K)) \ {sender, nodeId[n]}

\* C22: when the recipient is in the table and the ping to it fails,
\* sendMessage caches the message as one whose recipient was found and
\* forwards it to all of the k closest contacts other than the sender and
\* the node itself, closer to the recipient than the node or not
C22_KnownRecipientFallback ==
  [][\A i \in 1..MaxTasks :
       PingFailed(i)
         => LET t == tasks[i]
            IN  /\ t.id \in CachedIds(cache'[t.node])
                /\ Len(tasks') = Len(tasks)
                /\ tasks'[Len(tasks')].kind = "forward"
                /\ Range(tasks'[Len(tasks')].rest)
                     = ForcedPeers(t.node, t.sender, t.recipient)]_vars

----------------------------------------------------------------------------
(* Signaling next to a cache that holds user messages: one node 00..00 and
   the peers a0..00, f0..00 and a0..01, which share one bucket of the
   node's table, so that a third peer pushes the first out of it.  The node
   has cached user messages for the peer f0..00 (sendMessage has called
   cacheMessage); time passes, channels open, the peers send signaling
   frames and pongs, the application sends a signaling message, and the
   passes over the cache go on. *)

SignalingPeers == {2, 3, 6}

\* the user message the node caches and its recipient
CachedUserIds == {2}
CachedRecipient == 3

\* DHT.cacheMessage(this.nodeId, recipient, message, true), as sendMessage
\* calls it when it cannot deliver
CacheUserMessage(n, id) ==
  /\ TsOf(id) <= clock
  /\ Commit(DhtCacheMessage(State, n, CachedRecipient, id, TRUE),
            Did("cacheMessage", n, id))

\* Date.now() advances
Later ==
  /\ clock < MaxClock
  /\ clock' = clock + 1
  /\ step' = Did("later", 0, NoId)
  /\ UNCHANGED <<nodeId, buckets, kbOp, cache, cacheKind, dataChannels,
                 wire, forwardedMessagesIds, receivedSignalingMessageIds,
                 tasks, timers, replacedChannels, connectionManager,
                 visualizationServer, log>>

\* the pings of the passes of node n that wait for a pong of the peer p
PendingPassPings(n, p) ==
  {cache[n].passes[s].ping : s \in {slot \in DOMAIN cache[n].passes :
                                      /\ cache[n].passes[slot].pc = "ping"
                                      /\ cache[n].passes[slot].ping # 0
                                      /\ cache[n].passes[slot].cur.recipient
                                           = p}}

\* what a peer sends here: the peer a0..00 the signaling message 1 of the
\* peer a0..01, to the node or to the peer f0..00, and every peer the pongs
\* of the pending pings
SignalingFrames(n, p) ==
  {[type |-> "signaling", sender |-> 6, recipient |-> r, id |-> 1] :
     r \in IF p = 2 THEN {nodeId[n], 3} ELSE {}}
  \cup {[type |-> "pong", sender |-> p, recipient |-> nodeId[n], id |-> i] :
          i \in PendingPings(n, p) \cup PendingPassPings(n, p)}

NextSignaling ==
  \/ \E n \in Nodes, id \in CachedUserIds : CacheUserMessage(n, id)
  \/ Later
  \/ \E n \in Nodes, p \in SignalingPeers : Listening(n, p)
  \/ \E n \in Nodes, p \in SignalingPeers :
       \E frame \in SignalingFrames(n, p) : Deliver(n, p, frame)
  \/ \E n \in Nodes : SendSignalingMessage(n, 3, 1)
  \/ \E i \in 1..MaxTasks : PingFalse(i)
  \/ \E i \in 1..MaxTasks : SendAwaited(i)
  \/ \E n \in Nodes, s \in 1..MaxPasses : PassPingFalse(n, s)
  \/ \E n \in Nodes, s \in 1..MaxPasses : PassSendAwaited(n, s)

SpecSignaling == InitNode /\ [][NextSignaling]_vars

\* the step is an execution of sendSignalingMessage (its call or one of its
\* continuations, those of the forward it calls included) or of
\* handleMessage on a signaling frame
SignalingStep ==
  \/ step'.act \in {"sendSignalingMessage", "pingFalse", "sendAwaited"}
  \/ step'.act = "handleMessage" /\ step'.frame.type = "signaling"
  \/ /\ step'.act = "handleMessage"
     /\ step'.frame.type = "pong"
     /\ \E i \in 1..Len(tasks) : /\ tasks[i].pc = "ping"
                                 /\ tasks[i].ping = step'.frame.id
                                 /\ tasks[i].recipient = step'.from

\* C23: no execution of sendSignalingMessage, nor of handleMessage on a
\* signaling frame, changes the entries or the order of the cache
C23_SignalingNeverCached ==
  [][SignalingStep
       => \A n \in Nodes :
            /\ cache'[n].cachedMessages = cache[n].cachedMessages
            /\ cache'[n].accessOrder = cache[n].accessOrder]_vars

\* the entries of a cache whose timestamp is older than MAX_TTL
ExpiredIds(c) ==
  {c.cachedMessages[i].id :
     i \in {j \in 1..Len(c.cachedMessages) :
              Expired(clock, c.cachedMessages[j].ts, MAX_TTL)}}

\* C23, as the code has it: no execution of sendSignalingMessage, nor of
\* handleMessage on a signaling frame, adds an entry to the cache or moves
\* one in its order.  handleMessage on a signaling frame of a peer that is
\* not in the table calls addNode, whose pass over the cache removes the
\* entries when all of them have expired; nothing else changes the cache
C23_SignalingNotCached ==
  [][SignalingStep
       => \A n \in Nodes :
            \/ /\ cache'[n].cachedMessages = cache[n].cachedMessages
               /\ cache'[n].accessOrder = cache[n].accessOrder
            \/ /\ step'.act = "handleMessage"
               /\ step'.frame.type = "signaling"
               /\ step'.node = n
               /\ ~step'.dropped
               /\ step'.from \notin Contacts(buckets[n])
               /\ CachedIds(cache[n]) = ExpiredIds(cache[n])
               /\ cache'[n].cachedMessages = <<>>
               /\ \A i \in 1..Len(cache'[n].accessOrder) :
                    /\ cache'[n].accessOrder[i] \notin CachedIds(cache[n])
                    /\ cache'[n].accessOrder[i] \in Range(cache[n].accessOrder)
       ]_vars

\* a signaling frame has been handled, and a signaling message sent on,
\* while the cache held a user message; the cache still holds it
C23_Witness ==
  /\ step.act = "handleMessage"
  /\ step.frame.type = "signaling"
  /\ ~step.dropped
  /\ step.frame.recipient # nodeId[step.node]
  /\ cache[step.node].cachedMessages # <<>>

----------------------------------------------------------------------------
(* Closing a node that has worked: channels to the peers open, the
   application sends signaling messages, a user message is cached, both
   timers fire while they run, the pings time out, and the node is closed *)

\* the timer of startTTLCleanup fires: a pass over the cache begins
TtlCleanup(n) ==
  /\ "ttlCleanup" \in timers[n]
  /\ IdleSlots(cache[n]) # {}
  /\ Commit(TryToDeliver(State, n), Did("ttlCleanup", n, NoId))

\* the signaling messages the application sends before it closes the node
ClosingIds == {1, 2}

NextClose ==
  \/ \E n \in Nodes, p \in PeerIds : Listening(n, p)
  \/ \E n \in Nodes, id \in ClosingIds :
       /\ SignalingRecipientOf(id) # nodeId[n]
       /\ SendSignalingMessage(n, SignalingRecipientOf(id), id)
  \/ \E n \in Nodes, id \in CachedUserIds : CacheUserMessage(n, id)
  \/ \E i \in 1..MaxTasks : PingFalse(i)
  \/ \E i \in 1..MaxTasks : SendAwaited(i)
  \/ \E n \in Nodes, s \in 1..MaxPasses : PassPingFalse(n, s)
  \/ \E n \in Nodes : TtlCleanup(n)
  \/ \E n \in Nodes : ReceivedIdsCleanup(n)
  \/ \E n \in Nodes : Close(n)

SpecClose == InitNode /\ [][NextClose]_vars

\* C24: in the state close() leaves, neither timer of the node runs, its
\* Map of data channels is empty, and forwardedMessagesIds,
\* receivedSignalingMessageIds and the cache (entries and order) are empty
C24_ClosePostcondition ==
  step.act = "close"
    => /\ timers[step.node] = {}
       /\ dataChannels[step.node] = NoChannels
       /\ forwardedMessagesIds[step.node] = {}
       /\ receivedSignalingMessageIds[step.node] = <<>>
       /\ cache[step.node].cachedMessages = <<>>
       /\ cache[step.node].accessOrder = <<>>

\* C24, the part the code keeps: close() stops the TTL timer and empties
\* the Map of data channels, receivedSignalingMessageIds and the cache
C24_CloseClears ==
  step.act = "close"
    => /\ "ttlCleanup" \notin timers[step.node]
       /\ dataChannels[step.node] = NoChannels
       /\ receivedSignalingMessageIds[step.node] = <<>>
       /\ cache[step.node].cachedMessages = <<>>
       /\ cache[step.node].accessOrder = <<>>

----------------------------------------------------------------------------
(* rpc.ping and the close of its channel: the node of SpecPing, whose
   channels also close, one by one (onclose) or all at once (close()), and
   open again *)

NextPingClose ==
  \/ \E n \in Nodes, p \in PeerIds : Listening(n, p)
  \/ \E n \in Nodes, p \in PeerIds : SendSignalingMessage(n, p, 1)
  \/ \E n \in Nodes, p \in PeerIds :
       \E frame \in PongFrames(n, p) : Deliver(n, p, frame)
  \/ \E i \in 1..MaxTasks : PingFalse(i)
  \/ \E i \in 1..MaxTasks : SendAwaited(i)
  \/ \E n \in Nodes, p \in PeerIds : ChannelClosed(n, p)
  \/ \E n \in Nodes : Close(n)

\* the timer of rpc.ping is set when the ping is sent and is never cleared
SpecPingClose ==
  /\ InitNode
  /\ [][NextPingClose]_vars
  /\ WF_vars(\E i \in 1..MaxTasks : PingFalse(i))

\* the peers whose channel this step takes out of the Map of node n
ClosedNow(n) == DOMAIN dataChannels[n] \ DOMAIN dataChannels'[n]

\* C25: the step that closes a channel (onclose or close()) leaves no ping
\* outstanding on it, and a ping that was outstanding when its channel
\* closed does not resolve to true
C25_ClosedPingFails ==
  /\ [][\A i \in 1..Len(tasks') :
          tasks'[i].pc = "ping" /\ tasks'[i].ping # 0
            => tasks'[i].recipient \notin ClosedNow(tasks'[i].node)]_vars
  /\ [][\A i \in 1..Len(tasks) :
          /\ tasks[i].pc = "ping"
          /\ tasks[i].ping \in log[tasks[i].node].closedPings
          => ~PingResolvedTrue(i)]_vars

\* C25, the second half alone: a ping that was outstanding when its channel
\* closed does not resolve to true
C25_NoTrueAfterClose ==
  [][\A i \in 1..Len(tasks) :
       /\ tasks[i].pc = "ping"
       /\ tasks[i].ping \in log[tasks[i].node].closedPings
       => ~PingResolvedTrue(i)]_vars

----------------------------------------------------------------------------
(* The replay of the cache to a recipient that connects.  The node 00..00
   has met the peers a0..00, f0..00 and a0..01, in this order: they share
   one bucket of k = 2 contacts, which holds f0..00 and a0..01; the channel
   to f0..00 has closed since, and the node has cached two messages for
   f0..00.  Now the channel to f0..00 opens and stays open, f0..00 answers
   every ping (no timer of a ping to it fires), a0..00 pings the node, and
   the TTL timer fires from time to time *)

ReplayTarget == CachedRecipient
ReplayIds == {1, 2}
Joiners == {2}

\* cacheMessage(this.nodeId, recipient, message, true) for each message
RECURSIVE CacheAll(_, _, _)
CacheAll(c, self, ids) ==
  IF ids = {} THEN c
  ELSE LET id == CHOOSE i \in ids : \A j \in ids : i <= j
       IN  CacheAll(CacheMessage(c, "distance", MaxSize, DistanceThreshold,
                                 self, ReplayTarget, Message(id), self,
                                 TRUE, FALSE),
                    self, ids \ {id})

InitReplay ==
  /\ nodeId = [n \in {1} |-> 0]
  /\ buckets = [n \in {1} |->
                  KBucketAdd(KBucketAdd(EmptyTable, 0, ReplayTarget), 0, 6)]
  /\ kbOp = NoOp
  /\ cache = [n \in {1} |-> CacheAll(EmptyCache(MaxPasses + 1), 0, ReplayIds)]
  /\ cacheKind = [n \in {1} |-> "distance"]
  /\ clock = 0
  /\ dataChannels = [n \in {1} |-> OpenTo(Joiners \cup {6})]
  /\ wire = [p \in {} |-> <<>>]
  /\ forwardedMessagesIds = [n \in {1} |-> {}]
  /\ receivedSignalingMessageIds = [n \in {1} |-> <<>>]
  /\ tasks = <<>>
  /\ timers = [n \in {1} |-> StartedTimers]
  /\ replacedChannels = [n \in {1} |-> {}]
  /\ connectionManager = NewConnectionManager
  /\ visualizationServer = NewVisualizationServer
  /\ log = [n \in {1} |-> NoLog]
  /\ step = NoStep

\* the recipient answers the ping of the pass s of node n
Pong(n, s) ==
  /\ cache[n].passes[s].pc = "ping"
  /\ cache[n].passes[s].ping # 0
  /\ Deliver(n, ReplayTarget,
             [type |-> "pong", sender |-> ReplayTarget,
              recipient |-> nodeId[n], id |-> cache[n].passes[s].ping])

\* the peer p pings node n
Ping(n, p) ==
  Deliver(n, p, [type |-> "ping", sender |-> p, recipient |-> nodeId[n],
                 id |-> 1])

\* findAndPingNode returns null at once: it has sent no ping
PassNotFound(n, s) == cache[n].passes[s].ping = 0 /\ PassPingFalse(n, s)

\* no pass of node n is suspended in an await of a promise that is
\* resolved already (findAndPingNode that sent no ping, rpc.sendMessage):
\* the continuations of such awaits are microtasks, which all run before
\* the next event (a channel that opens, a frame, a timer)
Drained(n) ==
  \A s \in DOMAIN cache[n].passes :
    /\ cache[n].passes[s].pc # "send"
    /\ cache[n].passes[s].pc = "ping" => cache[n].passes[s].ping # 0

\* the pass s goes on: the pong of its ping arrives, or the await it is
\* suspended in returns
PassContinues(n, s) ==
  \/ Drained(n) /\ Pong(n, s)
  \/ PassNotFound(n, s)
  \/ PassSendAwaited(n, s)

NextReplay ==
  \/ \E n \in Nodes : Drained(n) /\ Listening(n, ReplayTarget)
  \/ \E n \in Nodes, p \in Joiners : Drained(n) /\ Ping(n, p)
  \/ \E n \in Nodes, s \in 1..(MaxPasses + 1) : PassContinues(n, s)
  \/ \E n \in Nodes : Drained(n) /\ TtlCleanup(n)

\* every pass goes on: its awaits return, and the pong of its ping, which
\* waits in the event queue while continuations run, is handled at last;
\* the interval timer fires again and again
SpecReplay ==
  /\ InitReplay
  /\ [][NextReplay]_vars
  /\ \A s \in 1..(MaxPasses + 1) : SF_vars(PassContinues(1, s))
  /\ WF_vars(Drained(1) /\ TtlCleanup(1))

\* node n holds the entry of the message id, in the Map or in accessOrder
Holds(n, id) ==
  id \in CachedIds(cache[n]) \/ id \in Range(cache[n].accessOrder)

Delivered(n, s, id) ==
  LET p == cache[n].passes[s]
  IN  id \in p.toRemove \/ (p.pc = "send" /\ p.ok /\ p.cur.id = id)

----------------------------------------------------------------------------
(* The peer (webrtc-peer.js) and its ConnectionManager
   (connection-manager.js).  The peer keeps a Map connections from peer ids
   to connections and a Map dataChannels from the keys
   `${peerId}:${this.peerId}:${label}` to data channels, and it hands both
   Maps to its ConnectionManager, which knows the second one as
   pexDataChannels.  An entry of that Map is a record of the key's peer and
   label and the channel's readyState.  The channel labeled dht is also
   handed to the rpc, whose onopen and onclose replace the peer's. *)

\* the labels of the data channels of a connection, in the order
\* initiateConnection creates them
Labels == <<"signaling", "profile", "peer_dto", "dht", "pex">>

\* the labels of the channels that close while their connection stays
ClosingLabels == {"signaling", "pex"}

\* the peers the peer connects to: 50..00 and a0..00
PexPeers == {1, 2}
\* the peer ids an advertisement may name: self and the peers
AdvertisedIds == {0} \cup PexPeers
\* the peers of an advertisement
MaxAdvertised == 2

\* Map.set(key, value) and Map.delete(key) on the keys of a Map, kept in
\* insertion order
KeySet(keys, key) ==
  IF \E i \in 1..Len(keys) : keys[i] = key THEN keys ELSE Append(keys, key)
KeyDelete(keys, key) == SelectSeq(keys, LAMBDA k : k # key)

\* this.dataChannels.set(`${peerId}:${this.peerId}:${label}`, dataChannel):
\* a key the Map holds keeps its place
ChannelSet(channels, ch) ==
  IF \E i \in 1..Len(channels) :
       channels[i].peer = ch.peer /\ channels[i].label = ch.label
  THEN [i \in 1..Len(channels) |->
          IF channels[i].peer = ch.peer /\ channels[i].label = ch.label
          THEN ch ELSE channels[i]]
  ELSE Append(channels, ch)

\* this.dataChannels.delete(`${peerId}:${this.peerId}:${label}`)
ChannelDelete(channels, p, label) ==
  SelectSeq(channels, LAMBDA ch : ~(ch.peer = p /\ ch.label = label))

\* the readyState of the channel of the key, "none" without the key
ReadyState(channels, p, label) ==
  IF \E i \in 1..Len(channels) :
       channels[i].peer = p /\ channels[i].label = label
  THEN channels[CHOOSE i \in 1..Len(channels) :
                  channels[i].peer = p /\ channels[i].label = label].readyState
  ELSE "none"

\* the five setupDataChannel calls of initiateConnection, from the label of
\* index i on
RECURSIVE SetupDataChannels(_, _, _)
SetupDataChannels(channels, p, i) ==
  IF i > Len(Labels) THEN channels
  ELSE SetupDataChannels(
         ChannelSet(channels, [peer |-> p, label |-> Labels[i],
                               readyState |-> "connecting"]),
         p, i + 1)

\* initiateConnection(targetPeer) from its await verifyPublicKey, whose
\* promise is settled, to its await createOffer: createPeerConnection sets
\* the connection, and setupDataChannel sets the five channels and hands
\* the one labeled dht to the rpc.  Nothing happens for the peer itself and
\* for a public key that does not hash to the peer id.  ps is the pair of
\* the ConnectionManager and the node's state
InitiateConnectionOn(ps, self, peerDto) ==
  IF peerDto.peerId = self \/ ~peerDto.keyOk THEN ps
  ELSE [cm |-> [ps.cm EXCEPT
                  !.connections = KeySet(@, peerDto.peerId),
                  !.pexDataChannels =
                     SetupDataChannels(@, peerDto.peerId, 1)],
        st |-> [ps.st EXCEPT !.dataChannels[1] =
                               MapPut(@, peerDto.peerId, "connecting")]]

\* dht.sortClosestToSelf(peerIds) -> KBucket.sortClosestToSelf on the keys
\* of channels: Buffer.from(key, "hex") stops at the first ':', so that the
\* distance of a key is the distance of its peer
sortClosestToSelf(self, channels) ==
  LET peerIds == [i \in 1..Len(channels) |-> channels[i].peer]
      sorted == SortByDistance(peerIds, self)
  IN  sorted

\* getClosestOpenPEXDataChannel(): the open channels in the Map's order;
\* the sorted array that sortClosestToSelf returns is dropped and the
\* first open channel is the result (<<>> is null)
getClosestOpenPEXDataChannel(cm, self) ==
  LET openChannels ==
        SelectSeq(cm.pexDataChannels, LAMBDA ch : ch.readyState = "open")
      dropped == sortClosestToSelf(self, openChannels)
  IN  IF Len(openChannels) = 0 THEN <<>> ELSE <<openChannels[1]>>

\* performPEXRequestToClosestPeer(peersRequested) -> sendPEXRequest: the
\* request is sent if there is a channel and its readyState is open
performPEXRequestToClosestPeer(cm, self) ==
  LET dataChannel == getClosestOpenPEXDataChannel(cm, self)
  IN  [cm EXCEPT !.call =
         [NoCall EXCEPT !.method = "performPEXRequestToClosestPeer",
                        !.channel = dataChannel,
                        !.sent = /\ dataChannel # <<>>
                                 /\ dataChannel[1].readyState = "open"]]

\* tableOfPeers of a handleNewPeers without the test of
\* this.connections.has(peerDto.peerId)
RECURSIVE TableOfPeers_noConnectedTest(_, _, _)
TableOfPeers_noConnectedTest(connections, self, receivedPeers) ==
  IF receivedPeers = <<>> THEN <<>>
  ELSE LET peerDto == Head(receivedPeers)
       IN  (IF peerDto.peerId # self THEN <<peerDto>> ELSE <<>>)
           \o TableOfPeers_noConnectedTest(connections, self,
                                           Tail(receivedPeers))

\* handleNewPeers(receivedPeers, signalingDataChannel): the peers it calls
\* initiateConnection for, in order.  receivedPeers comes from JSON.parse,
\* its elements are objects of their own, so that tableOfPeers.includes is
\* true of none; filterPeer is true of all
RECURSIVE TableOfPeers(_, _, _)
TableOfPeers(connections, self, receivedPeers) ==
  IF receivedPeers = <<>> THEN <<>>
  ELSE LET peerDto == Head(receivedPeers)
           alreadyConnected ==
             \E i \in 1..Len(connections) : connections[i] = peerDto.peerId
       IN  (IF ~alreadyConnected /\ peerDto.peerId # self
            THEN <<peerDto>> ELSE <<>>)
           \o TableOfPeers(connections, self, Tail(receivedPeers))

\* the peers of the second loop of handleNewPeers: those of tableOfPeers
\* that are not among filteredPeers and not connected, peersNeeded at most
UnconnectedPeers(connections, tableOfPeers, filteredPeers, minConnections) ==
  LET peersNeeded == minConnections - Len(connections)
      unconnectedPeers ==
        SelectSeq(tableOfPeers,
                  LAMBDA peer :
                    /\ ~\E i \in 1..Len(filteredPeers) :
                          filteredPeers[i].peerId = peer.peerId
                    /\ ~\E i \in 1..Len(connections) :
                          connections[i] = peer.peerId)
  IN  IF peersNeeded <= 0 THEN <<>>
      ELSE SubSeq(unconnectedPeers, 1, Min(peersNeeded, Len(unconnectedPeers)))

\* this.minConnections = 3
minConnections == 3

\* the calls of initiateConnection that handleNewPeers makes, in order
InitiatedPeers(connections, self, receivedPeers) ==
  LET tableOfPeers == TableOfPeers(connections, self, receivedPeers)
      filteredPeers == tableOfPeers
  IN  filteredPeers
      \o UnconnectedPeers(connections, tableOfPeers, filteredPeers,
                          minConnections)

\* the calls of initiateConnection run on, one after the other, when the
\* handler that made them has returned
RECURSIVE InitiateAll(_, _, _)
InitiateAll(ps, self, peers) ==
  IF peers = <<>> THEN ps
  ELSE InitiateAll(InitiateConnectionOn(ps, self, Head(peers)), self,
                   Tail(peers))

\* what a peer advertises: peers by id, each with a public key that hashes
\* to the id or not
PeerDtos == [peerId : AdvertisedIds, keyOk : BOOLEAN]

Advertisements ==
  UNION {[1..len -> PeerDtos] : len \in 0..MaxAdvertised}

\* peer.initiateConnection(targetPeer), as run-multiple-peers.js calls it
InitiateConnection(p) ==
  /\ p \notin Range(connectionManager.connections)
  /\ p \notin DOMAIN dataChannels[1]
  /\ LET ps == InitiateConnectionOn([cm |-> connectionManager, st |-> State],
                                    nodeId[1], [peerId |-> p, keyOk |-> TRUE])
     IN  CommitWith(ps.st,
                    [Did("initiateConnection", 1, NoId) EXCEPT !.peer = p],
                    [ps.cm EXCEPT !.call = NoCall])

\* the channel of the key opens, the channels of a connection in the order
\* of their creation.  The channel labeled dht has the onopen of the rpc:
\* "listening" -> addNode(node), tryToDeliverCachedMessagesToTarget(); the
\* onopen of the others logs
DataChannelOpen(p, label) ==
  /\ ReadyState(connectionManager.pexDataChannels, p, label) = "connecting"
  /\ \A i \in 1..Len(Labels) :
       ReadyState(connectionManager.pexDataChannels, p, Labels[i])
         = "connecting"
       => \E j \in 1..i : Labels[j] = label
  /\ LET cm == [connectionManager EXCEPT
                  !.pexDataChannels =
                     ChannelSet(@, [peer |-> p, label |-> label,
                                    readyState |-> "open"]),
                  !.call = NoCall]
         act == [Did("onopen", 1, NoId) EXCEPT !.peer = p]
     IN  IF label = "dht"
         THEN LET st1 == AddNodeNet([State EXCEPT !.dataChannels[1] =
                                                   MapPut(@, p, "open")],
                                    1, p)
              IN  /\ IdleSlots(st1.cache[1]) # {}
                  /\ CommitWith(TryToDeliver(st1, 1), act, cm)
         ELSE CommitWith(State, act, cm)

\* the channel of the key closes by itself and the onclose of the peer
\* deletes the key.  (The channel labeled dht has the onclose of the rpc; it
\* closes with its connection.)
DataChannelClose(p, label) ==
  /\ label \in ClosingLabels
  /\ ReadyState(connectionManager.pexDataChannels, p, label)
       \in {"connecting", "open"}
  /\ CommitWith(State, [Did("onclose", 1, NoId) EXCEPT !.peer = p],
                [connectionManager EXCEPT
                   !.pexDataChannels = ChannelDelete(@, p, label),
                   !.call = NoCall])

\* closeConnection(peerId), as oniceconnectionstatechange and
\* onconnectionstatechange call it: the connection and the channels whose
\* keys begin with the peer id are closed and deleted.  The rpc keeps the
\* closing channel labeled dht until its onclose runs
CloseConnection(p) ==
  /\ p \in Range(connectionManager.connections)
  /\ CommitWith(
       [State EXCEPT !.dataChannels[1] =
                       IF p \in DOMAIN @ /\ @[p] \in {"connecting", "open"}
                       THEN MapPut(@, p, "closing") ELSE @],
       [Did("closeConnection", 1, NoId) EXCEPT !.peer = p],
       [connectionManager EXCEPT
          !.connections = KeyDelete(@, p),
          !.pexDataChannels = SelectSeq(@, LAMBDA ch : ch.peer # p),
          !.call = NoCall])

\* the onclose of the rpc for a channel that closeConnection has closed
RpcChannelClosed(p) ==
  /\ p \in DOMAIN dataChannels[1]
  /\ dataChannels[1][p] = "closing"
  /\ ChannelClosed(1, p)

\* connectionManager.performPEXRequestToClosestPeer(this.minConnections),
\* as performInitialConnections calls it
PerformPEXRequestToClosestPeer ==
  LET cm == performPEXRequestToClosestPeer(connectionManager, nodeId[1])
  IN  CommitWith(State, Did("performPEXRequestToClosestPeer", 1, NoId), cm)

\* the onmessage of the open channel labeled pex of the peer p for an
\* advertisement: connectionManager.handleNewPeers(message.peers,
\* dataChannel), and then the calls of initiateConnection run on
HandleNewPeers(p, receivedPeers) ==
  /\ ReadyState(connectionManager.pexDataChannels, p, "pex") = "open"
  /\ LET initiated == InitiatedPeers(connectionManager.connections,
                                     nodeId[1], receivedPeers)
         ps == InitiateAll([cm |-> connectionManager, st |-> State],
                           nodeId[1], initiated)
     IN  CommitWith(
           ps.st,
           [Did("handleNewPeers", 1, NoId) EXCEPT !.peer = p],
           [ps.cm EXCEPT !.call =
              [NoCall EXCEPT !.method = "handleNewPeers",
                             !.received =
                                [i \in 1..Len(receivedPeers) |->
                                   receivedPeers[i].peerId],
                             !.initiated =
                                [i \in 1..Len(initiated) |->
                                   initiated[i].peerId]]])

NextPeer ==
  \/ \E p \in PexPeers : InitiateConnection(p)
  \/ \E p \in PexPeers : \E i \in 1..Len(Labels) : DataChannelOpen(p, Labels[i])
  \/ \E p \in PexPeers : \E i \in 1..Len(Labels) : DataChannelClose(p, Labels[i])
  \/ \E p \in PexPeers : CloseConnection(p)
  \/ \E p \in PexPeers : RpcChannelClosed(p)
  \/ PerformPEXRequestToClosestPeer
  \/ \E p \in PexPeers : \E receivedPeers \in Advertisements :
       HandleNewPeers(p, receivedPeers)

SpecPeer == InitNode /\ [][NextPeer]_vars

\* the peers with an open channel labeled pex, in the Map's order
OpenPexPeers(cm) ==
  LET open == SelectSeq(cm.pexDataChannels,
                        LAMBDA ch : ch.label = "pex" /\ ch.readyState = "open")
  IN  [i \in 1..Len(open) |-> open[i].peer]

\* C27: a PEX request of the connection manager is sent on the open channel
\* labeled pex of the peer closest to self among the peers with an open
\* channel labeled pex, and no request is sent when no channel labeled pex
\* is open
C27_ClosestPexChannel ==
  [][step'.act = "performPEXRequestToClosestPeer" =>
       LET peers == OpenPexPeers(connectionManager)
           call == connectionManager'.call
       IN  IF peers = <<>> THEN ~call.sent
           ELSE /\ call.sent
                /\ call.channel[1].label = "pex"
                /\ call.channel[1].peer
                     = Head(SortByDistance(peers, nodeId[1]))]_vars

\* C28: handleNewPeers calls initiateConnection for no peer whose id is the
\* node's own id or a key of connections at the time of the call, whatever
\* the advertisement
C28_NoSelfNoConnected ==
  [][step'.act = "handleNewPeers" =>
       \A i \in 1..Len(connectionManager'.call.initiated) :
          /\ connectionManager'.call.initiated[i] # nodeId[1]
          /\ connectionManager'.call.initiated[i]
               \notin Range(connectionManager.connections)]_vars

\* C28 (witness): an advertisement of self and of the connected peer 50..00
\* has been handled and no connection was initiated
C28_Witness ==
  /\ connectionManager.call.method = "handleNewPeers"
  /\ connectionManager.call.received = <<0, 1>>
  /\ connectionManager.call.initiated = <<>>
  /\ 1 \in Range(connectionManager.connections)

----------------------------------------------------------------------------
(* forward alone: one node whose table holds contacts, with open channels
   to some of them, and calls of forward(sender, recipient, message,
   forceForwardingToKPeers) with every sender and recipient.  While a call
   waits in its loop, channels close and open and the table gains
   contacts. *)

\* the contacts of the table at the start: 50..00, a0..00 and f0..00
ForwardContacts == {1, 2, 3}
\* the messages that are forwarded: one without and one with content
ForwardIds == {1, MaxMsgs + 1}
\* the senders of the calls: the node itself and the contact a0..00
ForwardSenders == {0, 2}
\* the recipients of the calls: two contacts, and 50..01 and 00..01, which
\* are none; no contact is closer to 00..01 than the node
ForwardRecipients == {1, 3, 4, 5}
\* forward calls that may be suspended at once
MaxForwards == 1

InitForward ==
  /\ nodeId = [n \in {1} |-> 0]
  /\ buckets = [n \in {1} |-> AddAll(EmptyTable, 0, ForwardContacts)]
  /\ kbOp = NoOp
  /\ cache = [n \in {1} |-> EmptyCache(MaxPasses)]
  /\ cacheKind = [n \in {1} |-> "distance"]
  /\ clock = 0
  /\ \E open \in SUBSET ForwardContacts :
       dataChannels = [n \in {1} |-> OpenTo(open)]
  /\ wire = [p \in {} |-> <<>>]
  /\ forwardedMessagesIds = [n \in {1} |-> {}]
  /\ receivedSignalingMessageIds = [n \in {1} |-> <<>>]
  /\ tasks = <<>>
  /\ timers = [n \in {1} |-> StartedTimers]
  /\ replacedChannels = [n \in {1} |-> {}]
  /\ connectionManager = NewConnectionManager
  /\ visualizationServer = NewVisualizationServer
  /\ log = [n \in {1} |-> NoLog]
  /\ step = NoStep

\* dht.forward(sender, recipient, message, forceForwardingToKPeers)
Forward(n, sender, recipient, id, force) ==
  /\ Len(tasks) < MaxForwards
  /\ Commit(StartForward(State, n, sender, recipient, id, force),
            Did("forward", n, id))

NextForward ==
  \/ \E sender \in ForwardSenders, recipient \in ForwardRecipients :
       \E id \in ForwardIds, force \in BOOLEAN :
         Forward(1, sender, recipient, id, force)
  \/ \E i \in 1..MaxTasks : SendAwaited(i)
  \/ \E p \in ForwardContacts : ChannelClosed(1, p)
  \/ \E p \in ForwardContacts \cup {5} : Listening(1, p)

SpecForward == InitForward /\ [][NextForward]_vars

\* among the k contacts of the table tbl closest to the recipient: fewer
\* than k contacts are closer to the recipient than p
AmongKClosest(tbl, p, recipient) ==
  /\ p \in Contacts(tbl)
  /\ Cardinality({q \in Contacts(tbl) :
                    CompareTable[recipient][q][p] < 0}) < K

\* a peer that the claim lets a forward call of the node n send to
ForwardTarget(n, p, sender, recipient, force) ==
  /\ AmongKClosest(buckets'[n], p, recipient)
  /\ p # sender
  /\ p # nodeId[n]
  /\ force \/ CompareTable[recipient][p][nodeId[n]] < 0

\* the peers the frames of the step went to
SentTo == {step'.sent[j].to : j \in 1..Len(step'.sent)}

\* C29: every frame a forward call sends goes to one of the k contacts
\* closest to the recipient, never to the sender and never to the node
\* itself, and without forceForwardingToKPeers only to contacts closer to
\* the recipient than the node: this holds of the frames the call sends
\* at once and of the peers it has still to send to, and when the call
\* resumes it sends to the next of these peers only
C29_ForwardTargets ==
  /\ [][\A sender \in ForwardSenders, recipient \in ForwardRecipients :
          \A id \in ForwardIds, force \in BOOLEAN :
            Forward(1, sender, recipient, id, force) =>
              /\ \A p \in SentTo :
                   ForwardTarget(1, p, sender, recipient, force)
              /\ Len(tasks') > Len(tasks) =>
                   \A p \in Range(tasks'[Len(tasks')].rest) :
                     ForwardTarget(1, p, sender, recipient, force)]_vars
  /\ [][\A i \in 1..MaxForwards :
          SendAwaited(i) =>
            /\ SentTo \subseteq {Head(r) : r \in {Tail(tasks[i].rest)} \ {<<>>}}
            /\ Len(tasks') = Len(tasks) => tasks'[i].rest = Tail(tasks[i].rest)
            /\ Len(tasks[i].rest) >= 2 => Len(tasks') = Len(tasks)]_vars

\* C29 (witness): a call with the sender a0..00 for the recipient f0..00,
\* whose two closest contacts are f0..00 and the sender, has sent its one
\* frame to f0..00
C29_Witness ==
  /\ step.act = "forward"
  /\ Len(tasks) = 1
  /\ tasks[1].sender = 2
  /\ tasks[1].recipient = 3
  /\ 2 \in Range(closest(buckets[1], 3, K))
  /\ tasks[1].rest = <<3>>
  /\ step.sent # <<>>
  /\ \A j \in 1..Len(step.sent) : step.sent[j].to = 3

\* the contacts the claim lets a forward call send to, closest to the
\* recipient first
RECURSIVE ByDistance(_, _)
ByDistance(peers, recipient) ==
  IF peers = {} THEN <<>>
  ELSE LET p == CHOOSE q \in peers :
                  \A r \in peers \ {q} : CompareTable[recipient][q][r] < 0
       IN  <<p>> \o ByDistance(peers \ {p}, recipient)

\* the peers of the frames of the step, in the order they were sent
SentSeq == [j \in 1..Len(step'.sent) |-> step'.sent[j].to]

\* a send to the first of the peers is attempted: with an open channel to
\* it, the one frame of the step goes to it
Attempted(peers) ==
  peers # <<>> /\ Head(peers) \in OpenChannels(dataChannels[1])
    => SentSeq = <<Head(peers)>>

\* C30: a forward call attempts a send to every contact it has selected,
\* in the order of the selection: the call begins with the whole selection
\* and attempts the first contact; each time it resumes it attempts the
\* next one, whether the channel to the one before was open or not, and it
\* ends only after the last one
C30_EveryPeerAttempted ==
  /\ [][\A sender \in ForwardSenders, recipient \in ForwardRecipients :
          \A id \in ForwardIds, force \in BOOLEAN :
            Forward(1, sender, recipient, id, force)
              /\ id \notin forwardedMessagesIds[1] =>
              LET selected ==
                    ByDistance({p \in Contacts(buckets[1]) :
                                  ForwardTarget(1, p, sender, recipient,
                                                force)}, recipient)
              IN  /\ Attempted(selected)
                  /\ selected # <<>> =>
                       /\ Len(tasks') = Len(tasks) + 1
                       /\ tasks'[Len(tasks')].rest = selected]_vars
  /\ [][\A i \in 1..MaxForwards :
          SendAwaited(i) =>
            /\ Attempted(Tail(tasks[i].rest))
            /\ Tail(tasks[i].rest) # <<>> =>
                 /\ Len(tasks') = Len(tasks)
                 /\ tasks'[i].rest = Tail(tasks[i].rest)]_vars

\* C30 (witness): a call for a message with content has resumed and has
\* sent the message's first frame, to its second contact: the send to the
\* first one had failed
C30_Witness ==
  /\ step.act = "sendAwaited"
  /\ step.id = MaxMsgs + 1
  /\ Len(step.sent) = 1
  /\ log[1].userFrames = 1
  /\ forwardedMessagesIds[1] = {}
  /\ Len(tasks) = 1
  /\ tasks[1].rest = <<step.sent[1].to>>

\* C31: a forward call that ends has inserted the message's id into
\* forwardedMessagesIds if it sent to a contact or was called with
\* forceForwardingToKPeers, and a call without forceForwardingToKPeers that
\* selects no contact leaves forwardedMessagesIds as it is
C31_ForwardedIds ==
  /\ [][\A sender \in ForwardSenders, recipient \in ForwardRecipients :
          \A id \in ForwardIds, force \in BOOLEAN :
            Forward(1, sender, recipient, id, force)
              /\ id \notin forwardedMessagesIds[1] =>
              LET selected == {p \in Contacts(buckets[1]) :
                                 ForwardTarget(1, p, sender, recipient, force)}
              IN  /\ selected = {} /\ force =>
                       id \in forwardedMessagesIds'[1]
                  /\ selected = {} /\ ~force =>
                       forwardedMessagesIds' = forwardedMessagesIds]_vars
  /\ [][\A i \in 1..MaxForwards :
          SendAwaited(i) /\ Len(tasks') < Len(tasks) =>
            tasks[i].id \in forwardedMessagesIds'[1]]_vars

----------------------------------------------------------------------------
(* start() and stop() of the ConnectionManager.  intervalId is TRUE while
   the field holds the timer of setInterval and FALSE while it is null. *)

\* start() calls that may wait in the delay of performInitialConnections
\* at once
MaxStarts == 2

\* performInitialConnections() up to its await delay(2000): it returns at
\* once if hasTriggeredInitialConnections
performInitialConnections(cm) ==
  IF cm.hasTriggeredInitialConnections THEN cm
  ELSE [cm EXCEPT !.delays = @ + 1]

\* start(): nothing if intervalId is set; else performInitialConnections()
\* and this.intervalId = setInterval(...)
start(cm) ==
  IF cm.intervalId THEN cm
  ELSE [performInitialConnections(cm) EXCEPT !.intervalId = TRUE,
                                             !.intervals = @ + 1]

\* stop(): clearInterval(this.intervalId); this.intervalId = null
stop(cm) ==
  IF cm.intervalId
  THEN [cm EXCEPT !.intervalId = FALSE, !.intervals = @ - 1]
  ELSE cm

\* performInitialConnections() after its delay:
\* performPEXRequestToClosestPeer(this.minConnections) and
\* this.hasTriggeredInitialConnections = true
performInitialConnectionsResumed(cm, self) ==
  LET cm1 == performPEXRequestToClosestPeer(cm, self)
  IN  [cm1 EXCEPT !.delays = @ - 1,
                  !.initialRequests = IF cm1.call.sent THEN @ + 1 ELSE @,
                  !.hasTriggeredInitialConnections = TRUE]

\* connectionManager.start()
Start ==
  /\ \/ connectionManager.intervalId
     \/ connectionManager.hasTriggeredInitialConnections
     \/ connectionManager.delays < MaxStarts
  /\ LET cm == start([connectionManager EXCEPT !.call = NoCall])
     IN  CommitWith(State, Did("start", 1, NoId), cm)

\* connectionManager.stop()
Stop ==
  LET cm == stop([connectionManager EXCEPT !.call = NoCall])
  IN  CommitWith(State, Did("stop", 1, NoId), cm)

\* the timer of a delay(2000) fires
DelayElapsed ==
  /\ connectionManager.delays > 0
  /\ CommitWith(State, Did("performInitialConnections", 1, NoId),
                performInitialConnectionsResumed(connectionManager,
                                                 nodeId[1]))

\* the timer of setInterval fires: checkConnectionsAndConnect(), whose
\* body is empty
CheckConnectionsAndConnect ==
  /\ connectionManager.intervals > 0
  /\ CommitWith(State, Did("checkConnectionsAndConnect", 1, NoId),
                [connectionManager EXCEPT !.call = NoCall])

NextStart ==
  \/ Start
  \/ Stop
  \/ DelayElapsed
  \/ CheckConnectionsAndConnect
  \/ \E p \in PexPeers : InitiateConnection(p)
  \/ \E p \in PexPeers : \E i \in 1..Len(Labels) : DataChannelOpen(p, Labels[i])
  \/ \E p \in PexPeers : CloseConnection(p)
  \/ \E p \in PexPeers : RpcChannelClosed(p)

SpecStart == InitNode /\ [][NextStart]_vars

\* C32: a connection manager issues at most one initial PEX request,
\* whatever the start() and stop() calls and also with a stop() and a
\* start() within the delay of the first start(), and at most one timer of
\* setInterval runs
C32_OneInitialRequest ==
  /\ connectionManager.initialRequests <= 1
  /\ connectionManager.intervals <= 1
  /\ connectionManager.intervals = 1 <=> connectionManager.intervalId

\* the cache replay of node 1 alone, with no assumption that a pass goes on
SpecReplayOnce == InitReplay /\ [][NextReplay]_vars

\* C33: the passes over the cache send each cached message to its recipient
\* at most once, also when several passes are in progress
C33_ReplayAtMostOnce ==
  \A id \in ReplayIds : log[1].replayed[id] <= 1

----------------------------------------------------------------------------
(* A data channel that is attached for a peer whose earlier channel is still
   in the Map of the rpc: both ends have initiated a connection, or the
   peer has connected again before the channel of its earlier connection
   has closed.  setupDataChannel sets the handlers of the new channel and
   replaces the Map's entry; the earlier channel keeps its handlers. *)

\* setupDataChannel(node, dataChannel) for a peer the Map holds a channel
\* for: this.dataChannels.set(node.id, dataChannel) replaces the entry.
\* One replaced channel of a peer at a time
SetupDataChannelAgain(n, p) ==
  /\ p \in DOMAIN dataChannels[n]
  /\ p \notin replacedChannels[n]
  /\ Commit([State EXCEPT !.dataChannels[n] = MapPut(@, p, "connecting"),
                          !.replaced[n] = @ \cup {p}],
            [Did("setupDataChannel", n, NoId) EXCEPT !.peer = p])

\* the onclose of a replaced channel: this.dataChannels.delete(node.id)
ReplacedChannelClosed(n, p) ==
  /\ p \in replacedChannels[n]
  /\ Commit([State EXCEPT !.dataChannels[n] = MapRemove(@, p),
                          !.replaced[n] = @ \ {p}],
            [Did("replacedChannelClosed", n, NoId) EXCEPT !.peer = p])

NextReattach ==
  \/ \E n \in Nodes, p \in PeerIds : SetupDataChannel(n, p)
  \/ \E n \in Nodes, p \in PeerIds : SetupDataChannelAgain(n, p)
  \/ \E n \in Nodes, p \in PeerIds : Listening(n, p)
  \/ \E n \in Nodes, p \in PeerIds : ChannelClosed(n, p)
  \/ \E n \in Nodes, p \in PeerIds : ReplacedChannelClosed(n, p)
  \/ \E n \in Nodes : Close(n)
  \/ \E n \in Nodes, p \in PeerIds :
       RpcSend(n, p, 1, TRUE, FALSE)

SpecReattach == InitNode /\ [][NextReattach]_vars

\* C34: when the channel closes that an attached channel has replaced, the
\* Map keeps the entry of the peer, which is the channel attached last
C34_ReattachedEntry ==
  [][\A p \in PeerIds :
       ReplacedChannelClosed(1, p) /\ p \in DOMAIN dataChannels[1] =>
         /\ p \in DOMAIN dataChannels'[1]
         /\ dataChannels'[1][p] = dataChannels[1][p]]_vars

----------------------------------------------------------------------------
(* One sendMessage call in a network of four nodes: the origin 00..00 knows
   the relay a0..00; the relay knows the origin, the recipient f0..00 and a
   bystander 50..00, which is further from the recipient than the relay is;
   the recipient and the bystander know the relay.  Every contact has an
   open channel.  The origin sends one user message to the recipient;
   frames are handled in order, a ping is answered or times out. *)

\* node 1 is the origin, Relay the relay, 3 the recipient, 4 the bystander
HopNodes == {1, Relay, 3, 4}

HopIds == <<0, 2, 3, 1>>

\* the nodes a node of the network knows and has a channel to
HopContacts(n) == IF n = Relay THEN HopNodes \ {Relay} ELSE {Relay}

InitHops ==
  /\ nodeId = HopIds
  /\ buckets = [n \in HopNodes |->
                  AddAll(EmptyTable, HopIds[n],
                         {HopIds[m] : m \in HopContacts(n)})]
  /\ kbOp = NoOp
  /\ cache = [n \in HopNodes |-> EmptyCache(MaxPasses)]
  /\ cacheKind = [n \in HopNodes |-> "distance"]
  /\ clock = 0
  /\ dataChannels = [n \in HopNodes |->
                       OpenTo({HopIds[m] : m \in HopContacts(n)})]
  /\ wire = [p \in {q \in HopNodes \X HopNodes : q[1] # q[2]} |-> <<>>]
  /\ forwardedMessagesIds = [n \in HopNodes |-> {}]
  /\ receivedSignalingMessageIds = [n \in HopNodes |-> <<>>]
  /\ tasks = <<>>
  /\ timers = [n \in HopNodes |-> StartedTimers]
  /\ replacedChannels = [n \in HopNodes |-> {}]
  /\ connectionManager = NewConnectionManager
  /\ visualizationServer = NewVisualizationServer
  /\ log = [n \in HopNodes |-> NoLog]
  /\ step = NoStep

\* the origin's application calls dht.sendMessage(recipient, message), once
SendOverHops(id) ==
  /\ step.act = "init"
  /\ SendMessage(1, nodeId[3], id)

NextHops ==
  \/ \E id \in UserMessageIds : SendOverHops(id)
  \/ \E n \in Nodes, m \in Nodes : Receive(n, m)
  \/ \E i \in 1..MaxTasks : PingFalse(i)
  \/ \E i \in 1..MaxTasks : SendAwaited(i)

SpecHops == InitHops /\ [][NextHops]_vars

\* the frames of a step that carry a user or signaling message
Relayed(sent) ==
  {i \in 1..Len(sent) : sent[i].frame.type \in {"message", "signaling"}}

\* C35: every frame that carries the message of the sendMessage call goes
\* from a node to a peer strictly closer to the recipient than the node is,
\* and no node begins to forward the message a second time and sends it
C35_ForwardingTerminates ==
  [][/\ \A i \in Relayed(step'.sent) :
          JsStringLess(Distance(step'.sent[i].to,
                                step'.sent[i].frame.recipient),
                       Distance(nodeId[step'.node],
                                step'.sent[i].frame.recipient))
     /\ \A n \in Nodes : log'[n].lateSent = 0]_vars

\* C36: every frame that carries the payload of the sendMessage call is of
\* type message, on every hop, and no node emits signalingMessage for it
C36_KindPreserved ==
  [][/\ \A i \in Relayed(step'.sent) :
          step'.sent[i].frame.id \in UserMessageIds
            => step'.sent[i].frame.type = "message"
     /\ \A n \in Nodes : \A id \in UserMessageIds \cap (1..MaxMsgs) :
          log'[n].emitted[id] = 0]_vars

\* C37: the calls of initiateConnection that one call of handleNewPeers
\* makes are for peers of different ids, whatever list was advertised
C37_OncePerPeerId ==
  connectionManager.call.method = "handleNewPeers"
    => \A i, j \in 1..Len(connectionManager.call.initiated) :
         connectionManager.call.initiated[i]
           = connectionManager.call.initiated[j] => i = j

----------------------------------------------------------------------------
(* The lifetime of a cached entry: messages with a timestamp, as the
   application builds them, and without one, as runMultiplePeers sends
   them, are cached at time 0; passes run, one at a time, and time goes
   by *)

\* the payloads handed to cacheMessage: every one has an id
LifetimeMessages == {Message(1), [id |-> 2, ts |-> NoTs]}

NextLifetime ==
  \/ \E n \in Nodes, message \in LifetimeMessages :
       /\ clock = 0
       /\ CacheMsg(n, message, RecipientOf(message.id), TRUE, FALSE)
  \/ \E n \in Nodes : TryDeliver(n, 1)
  \/ \E n \in Nodes, t \in BOOLEAN : PassPing(n, 1, t)
  \/ \E n \in Nodes, ok \in BOOLEAN : PassSend(n, 1, ok)
  \/ Tick

SpecLifetime == InitExpiry /\ [][NextLifetime]_vars

\* C38: every entry was cached at time 0, so a pass that has started later
\* than MAX_TTL leaves none of them in the cache when it ends, whether the
\* payload of the entry has a timestamp or not
C38_BoundedLifetime ==
  [][\A n \in Nodes :
       LET p == cache[n].passes[1]
           now == IF p.pc = "idle" THEN clock ELSE p.now
       IN  PassEnded(n, 1) /\ now > MAX_TTL
             => cache'[n].cachedMessages = <<>>]_vars

----------------------------------------------------------------------------
(* The event log of the visualization server: the handler of
   visualizationEvent pushes events onto eventQueue and calls processQueue,
   whose loop reads events.json, appends one event and writes the file
   back.  fs.readFile and fs.writeFile resolve or reject, and a rejected
   write leaves the file as it was or with a part of the text. *)

MaxEvents == 5

\* the events the file holds when JSON.parse accepts its text
ParsedEvents(file) == IF file.state = "ok" THEN file.events ELSE <<>>

\* the loop of call i leaves the try block: finally isProcessingQueue =
\* false.  The loop ends when eventQueue is empty and nothing runs between
\* its end and the test eventQueue.length > 0 that follows, so that the
\* call of processQueue after the test is never made
LoopFinished(v, i) ==
  [v EXCEPT !.isProcessingQueue = FALSE,
            !.loops = SubSeq(@, 1, i - 1) \o SubSeq(@, i + 1, Len(@))]

\* while (eventQueue.length > 0): event = eventQueue.shift() and
\* await fs.readFile(...), or the end of the loop
LoopHead(v, i) ==
  IF v.eventQueue # <<>>
  THEN [v EXCEPT !.loops[i] = [pc |-> "read", event |-> Head(v.eventQueue),
                               events |-> <<>>],
                 !.eventQueue = Tail(@)]
  ELSE LoopFinished(v, i)

\* a processQueue that does not test isProcessingQueue
processQueue_unguarded(v) ==
  IF v.eventQueue = <<>> THEN v
  ELSE LoopHead([v EXCEPT !.isProcessingQueue = TRUE,
                          !.loops = Append(@, [pc |-> "start", event |-> 0,
                                               events |-> <<>>])],
                Len(v.loops) + 1)

\* processQueue() up to its first await
processQueue(v) ==
  IF v.isProcessingQueue \/ v.eventQueue = <<>> THEN v
  ELSE LoopHead([v EXCEPT !.isProcessingQueue = TRUE,
                          !.loops = Append(@, [pc |-> "start", event |-> 0,
                                               events |-> <<>>])],
                Len(v.loops) + 1)

\* the loop of call i resumes after await fs.readFile: events =
\* JSON.parse(eventsFile), or [] if the text does not parse;
\* events.push(event); await fs.writeFile(...).  A rejected read is caught
\* and logged, and the loop goes on with the next event
ReadSettled(v, i, ok) ==
  IF ok
  THEN [v EXCEPT !.loops[i].pc = "write",
                 !.loops[i].events =
                    Append(ParsedEvents(v.file), v.loops[i].event)]
  ELSE LoopHead([v EXCEPT !.sound = FALSE], i)

\* the loop of call i resumes after await fs.writeFile: the file holds
\* JSON.stringify(events), or the write was rejected, which is caught and
\* logged; the loop goes on with the next event
WriteSettled(v, i, outcome) ==
  LoopHead([v EXCEPT
              !.file = CASE outcome = "written" ->
                              [state |-> "ok", events |-> v.loops[i].events]
                         [] outcome = "partial" ->
                              [state |-> "corrupt", events |-> <<>>]
                         [] OTHER -> @,
              !.sound = @ /\ outcome = "written"],
           i)

\* what is left unchanged by the steps of the visualization server
ServerOnly ==
  UNCHANGED <<nodeId, buckets, kbOp, cache, cacheKind, clock, dataChannels,
              wire, forwardedMessagesIds, receivedSignalingMessageIds,
              tasks, timers, replacedChannels, connectionManager, log, step>>

\* the listener of 'visualizationEvent': the event is sent to the
\* WebSocket clients, eventQueue.push(event); processQueue()
VisualizationEvent ==
  /\ visualizationServer.pushed < MaxEvents
  /\ LET event == visualizationServer.pushed + 1
     IN  visualizationServer' =
           processQueue([visualizationServer EXCEPT
                           !.eventQueue = Append(@, event),
                           !.pushed = event])
  /\ ServerOnly

\* fs.readFile settles for the loop of call i
ReadFileSettled(i, ok) ==
  /\ i \in 1..Len(visualizationServer.loops)
  /\ visualizationServer.loops[i].pc = "read"
  /\ visualizationServer' = ReadSettled(visualizationServer, i, ok)
  /\ ServerOnly

\* fs.writeFile settles for the loop of call i
WriteFileSettled(i, outcome) ==
  /\ i \in 1..Len(visualizationServer.loops)
  /\ visualizationServer.loops[i].pc = "write"
  /\ visualizationServer' = WriteSettled(visualizationServer, i, outcome)
  /\ ServerOnly

NextEvents ==
  \/ VisualizationEvent
  \/ \E i \in 1..MaxEvents, ok \in BOOLEAN : ReadFileSettled(i, ok)
  \/ \E i \in 1..MaxEvents, outcome \in {"written", "rejected", "partial"} :
       WriteFileSettled(i, outcome)

SpecEvents == InitNode /\ [][NextEvents]_vars

\* no processQueue loop runs and eventQueue is empty
EventsSettled ==
  /\ visualizationServer.loops = <<>>
  /\ visualizationServer.eventQueue = <<>>

\* the events file holds the first events pushed, each once and in the
\* order they were pushed; the others are with the loop or in eventQueue,
\* in that order
EventsInOrder ==
  LET v == visualizationServer
      held == [i \in 1..Len(v.loops) |-> v.loops[i].event]
      inOrder == v.file.events \o held \o v.eventQueue
  IN  /\ v.file.state = "ok"
      /\ inOrder = [i \in 1..v.pushed |-> i]

============================================================================
